---- MODULE Spec2Model ----
(***************************************************************************)
(* Model of the AI QA Agent: the Gemini call gateway (retry wrapper and    *)
(* error classifier), the identifier allocator, the tolerant JSON parser   *)
(* and the test-case store with the handlers that write to it.             *)
(*                                                                         *)
(* Strings are modelled as sequences.  Module names, ids and model output  *)
(* are sequences of single characters; error messages are sequences of     *)
(* words, where one word is the smallest piece of text the classifier's    *)
(* substring tests can tell apart.                                         *)
(***************************************************************************)
EXTENDS Integers, Sequences, FiniteSets, Bags, TLC

VARIABLES
    \* --- withRateLimitRetry, one call in progress ---
    pc,          \* "call" | "sleep" | "returned" | "thrown"
    attempt,     \* the loop variable `attempt`
    calls,       \* number of times apiCall() has been invoked
    delays,      \* the setTimeout delays awaited so far, in order
    error,       \* the value bound by the last `catch (error)`
    outcome,     \* what the call returned or threw
    \* --- application state store and the batch generation in flight ---
    testCases,            \* state.testCases
    idLog,                \* bag of the ids committed to the store so far
    deletedIds,           \* the ids of the cases deleted so far
    isLoading,            \* TestGenerationTab isLoading
    genModules,           \* runGeneration `modules`
    genIndex,             \* runGeneration loop variable i (1-based here)
    allTestCasesContext,  \* runGeneration running list
    allNewTestCases,      \* runGeneration new cases not yet dispatched
    genIssued,            \* the generateTestCasesWithGemini calls of the batch, in order
    genOutstanding,       \* how many of them have not settled yet
    \* --- setup form and the auto-execution batch in flight ---
    setupInfo,        \* state.setupInfo: appUrl and appDescription
    isAutoExecuting,  \* ResultsTab isAutoExecuting
    pendingTests,     \* handleAutoExecution `pendingTests`
    execIndex,        \* handleAutoExecution loop variable i (1-based here)
    execCalls,        \* executeTestCaseWithGemini calls issued by the batch
    execError,        \* the error the batch rejected with
    \* --- one service call (discovery, generation or execution prediction) ---
    service,  \* which service function is running
    responseText,  \* response.text of the successful transport call
    serviceResult,  \* how the service function settled
    \* --- DiscoveryTab and the discovery cache ---
    cachedSuggestions,  \* state.cachedSuggestions
    suggestedModules,  \* DiscoveryTab suggestedModules
    checkedModules,  \* the names with checkedModules[name] true
    discLoading,  \* DiscoveryTab isLoading
    discKey,  \* discoveryKey of the discovery in flight
    discForce,  \* force of the discovery in flight
    discError,  \* DiscoveryTab error
    discToast,  \* the last toast shown by DiscoveryTab
    discRequest,  \* the discovery handler invoked last
    discRequests,  \* how many times a discovery handler was invoked
    discoveredModules,  \* state.discoveredModules
    discInputs,  \* state.setupInfo as seen by the discovery in flight
    cachedInputs,  \* the inputs the cached discovery was made with
    \* --- TestingTab: the add/edit modal and its TestCaseForm ---
    isModalOpen,  \* TestingTab isModalOpen
    editingTestCase,  \* TestingTab editingTestCase: <<>> for null, else <<the case>>
    formTestCase,  \* TestCaseForm testCase: <<>> while the form is unmounted
    submittedData,  \* history: the data handed to the last dispatch that created cases
    \* --- AppProvider: the persisted blob ---
    localStorage,  \* the entry under LOCAL_STORAGE_KEY: [kind, value]
    provider,  \* AppProvider: "unmounted", "initialized" (useReducer initializer ran), "mounted" (first effect ran)
    \* --- ResultsTab manual execution ---
    currentTestIndex,  \* ResultsTab currentTestIndex, 0-based; NullIndex for null
    presented,  \* history: the ids shown as the current test since startExecution
    \* --- DiscoveryTab module analysis ---
    analyzingModuleId,  \* DiscoveryTab analyzingModuleId: NoModule for null, else the id of the module
    \* --- pure functions under test ---
    arg,         \* the argument(s) of the function being applied
    ret          \* its result, NotCalled before the call

gatewayVars == <<pc, attempt, calls, delays, error, outcome>>
storeVars == <<testCases, idLog, deletedIds, isLoading, genModules, genIndex,
               allTestCasesContext, allNewTestCases, genIssued, genOutstanding>>
fnVars == <<arg, ret>>
uiVars == <<setupInfo, isAutoExecuting, pendingTests, execIndex, execCalls, execError,
           service, responseText, serviceResult,
           cachedSuggestions, suggestedModules, checkedModules, discLoading, discKey, discForce, discError, discToast, discRequest, discRequests, discoveredModules,
           discInputs, cachedInputs,
           isModalOpen, editingTestCase, formTestCase, submittedData,
           localStorage, provider,
           currentTestIndex, presented,
           analyzingModuleId>>
vars == <<pc, attempt, calls, delays, error, outcome,
          testCases, idLog, deletedIds, isLoading, genModules, genIndex,
          allTestCasesContext, allNewTestCases, genIssued, genOutstanding, arg, ret,
          setupInfo, isAutoExecuting, pendingTests, execIndex, execCalls, execError,
          service, responseText, serviceResult,
          cachedSuggestions, suggestedModules, checkedModules, discLoading, discKey, discForce, discError, discToast, discRequest, discRequests, discoveredModules,
          discInputs, cachedInputs,
          isModalOpen, editingTestCase, formTestCase, submittedData,
          localStorage, provider,
          currentTestIndex, presented,
          analyzingModuleId>>

formVars == <<isModalOpen, editingTestCase, formTestCase, submittedData>>

persistVars == <<localStorage, provider>>

manualVars == <<currentTestIndex, presented>>

analysisVars == <<analyzingModuleId>>

(***************************************************************************)
(* Generic sequence helpers                                                *)
(***************************************************************************)
Range(s) == {s[i] : i \in 1..Len(s)}

SeqsUpTo(S, n) == UNION {[1..k -> S] : k \in 0..n}

Max(S) == CHOOSE x \in S : \A y \in S : y <= x

RECURSIVE Pow2(_)
Pow2(n) == IF n = 0 THEN 1 ELSE 2 * Pow2(n - 1)

RECURSIVE FilterSeq(_, _)
\* Array.prototype.filter with the predicate given as a set of kept values
FilterSeq(s, keep) ==
    IF s = <<>> THEN <<>>
    ELSE IF Head(s) \in keep THEN <<Head(s)>> \o FilterSeq(Tail(s), keep)
    ELSE FilterSeq(Tail(s), keep)

(***************************************************************************)
(* Error messages as sequences of words                                    *)
(***************************************************************************)
MaxWords == 2

Words == {"Quota", "RESOURCE_EXHAUSTED", "429", "API key not valid", "SAFETY", "timeout"}

\* String.prototype.toLowerCase on one word
LowerWord(w) ==
    CASE w = "Quota" -> "quota"
      [] w = "RESOURCE_EXHAUSTED" -> "resource_exhausted"
      [] w = "API key not valid" -> "api key not valid"
      [] w = "SAFETY" -> "safety"
      [] OTHER -> w

toLowerCase(text) == [i \in 1..Len(text) |-> LowerWord(text[i])]

\* String.prototype.includes for a one-word needle
includes(text, needle) == \E i \in 1..Len(text) : text[i] = needle

Texts == SeqsUpTo(Words, MaxWords)

\* The structured record { status?, message? }; "" and <<>> stand for an
\* absent (or empty) field, which the code cannot tell apart.
Statuses == {"RESOURCE_EXHAUSTED", "INVALID_ARGUMENT", ""}

CoreErrors == [status : Statuses, message : Texts]

NoCore == [status |-> "", message |-> <<>>]

\* Text a JSON document carries outside its `error.message`
ExtraTexts == {<<>>, <<"429">>, <<"Quota">>}

\* Outer `message` of a value that also has a nested `error` object
OuterTexts == {<<>>, <<"Quota", "429">>}

\* A caught value:
\*   isError     it is an instance of Error
\*   hasNested   it has an `error` property holding a non-null object
\*   hasMessage  it has a `message` property holding a string
\*   json        that string is JSON text of a document with an `error` object
\*   words       the message text (for JSON: the text outside error.message)
NestedErrors ==
    [isError : BOOLEAN, hasNested : {TRUE}, nested : CoreErrors,
     hasMessage : {TRUE}, json : {FALSE}, parsed : {NoCore}, words : OuterTexts]

JsonMessageErrors ==
    [isError : BOOLEAN, hasNested : {FALSE}, nested : {NoCore},
     hasMessage : {TRUE}, json : {TRUE}, parsed : CoreErrors, words : ExtraTexts]

PlainMessageErrors ==
    [isError : BOOLEAN, hasNested : {FALSE}, nested : {NoCore},
     hasMessage : {TRUE}, json : {FALSE}, parsed : {NoCore}, words : Texts]

\* a thrown string or undefined: no properties at all
BareValues ==
    [isError : {FALSE}, hasNested : {FALSE}, nested : {NoCore},
     hasMessage : {FALSE}, json : {FALSE}, parsed : {NoCore}, words : {<<>>}]

ErrorValues == NestedErrors \cup JsonMessageErrors \cup PlainMessageErrors \cup BareValues

NoError == [isError |-> FALSE, hasNested |-> FALSE, nested |-> NoCore,
            hasMessage |-> FALSE, json |-> FALSE, parsed |-> NoCore, words |-> <<>>]

\* JSON.stringify of the document { error: { status, message }, ... }: the
\* raw text of a JSON-encoded message
JsonText(core, extra) ==
    (IF core.status = "" THEN <<>> ELSE <<core.status>>) \o core.message \o extra

\* (error as any).message
MessageOf(e) == IF e.json THEN JsonText(e.parsed, e.words) ELSE e.words

(***************************************************************************)
(* withRateLimitRetry: the retry decision                                  *)
(***************************************************************************)
maxRetries == 2

initialDelay == 5000

\* the `coreError` found by the catch block, found = FALSE for null
RetryCoreError(e) ==
    IF e.hasNested THEN [found |-> TRUE, core |-> e.nested]
    ELSE IF e.hasMessage /\ e.json THEN [found |-> TRUE, core |-> e.parsed]
    ELSE [found |-> FALSE, core |-> NoCore]

isRetryable_noQuotaCheck(e) ==
    LET c == RetryCoreError(e) IN
    IF c.found THEN c.core.status = "RESOURCE_EXHAUSTED"
    ELSE IF e.isError THEN
        LET lowerMessage == toLowerCase(MessageOf(e)) IN
        includes(lowerMessage, "resource_exhausted") \/ includes(lowerMessage, "429")
    ELSE FALSE

isRetryable(e) ==
    LET c == RetryCoreError(e) IN
    IF c.found THEN
        LET isResourceExhausted == c.core.status = "RESOURCE_EXHAUSTED"
            isQuotaError == includes(toLowerCase(c.core.message), "quota")
        IN isResourceExhausted /\ ~isQuotaError
    ELSE IF e.isError THEN
        LET lowerMessage == toLowerCase(MessageOf(e))
            isRateLimitError == includes(lowerMessage, "resource_exhausted")
                                \/ includes(lowerMessage, "429")
            isQuotaError == includes(lowerMessage, "quota")
        IN isRateLimitError /\ ~isQuotaError
    ELSE FALSE

RetryDelay_constant(n) == initialDelay

\* initialDelay * Math.pow(2, attempt)
RetryDelay(n) == initialDelay * Pow2(n)

(***************************************************************************)
(* handleGeminiError: the message shown to the user                        *)
(***************************************************************************)
UnknownErrorText == <<"An unknown error occurred in the Gemini Service.">>

HandlerCoreError(e) ==
    IF e.hasNested THEN [found |-> TRUE, core |-> e.nested]
    ELSE IF e.hasMessage /\ e.json THEN [found |-> TRUE, core |-> e.parsed]
    ELSE [found |-> FALSE, core |-> NoCore]

HandlerFallbackMessage(e) ==
    IF e.hasNested THEN UnknownErrorText
    ELSE IF e.hasMessage THEN MessageOf(e)
    ELSE UnknownErrorText

handleGeminiError(e) ==
    LET c == HandlerCoreError(e)
        fallbackMessage == HandlerFallbackMessage(e)
        lowerFallbackMessage == toLowerCase(fallbackMessage)
    IN
    IF c.found /\ c.core.message # <<>> THEN
        LET lowerNestedMessage == toLowerCase(c.core.message) IN
        IF c.core.status = "RESOURCE_EXHAUSTED" /\ includes(lowerNestedMessage, "quota")
        THEN <<"API Quota Exceeded:">> \o c.core.message
             \o <<"This is a hard limit based on your plan. Please check your Google AI plan and billing details.">>
        ELSE IF c.core.status = "RESOURCE_EXHAUSTED"
        THEN <<"API Rate Limit Reached:">> \o c.core.message
             \o <<"The application is sending requests too quickly. Please wait a moment and try again.">>
        ELSE IF includes(lowerNestedMessage, "api key not valid")
        THEN <<"Invalid API Key:">> \o c.core.message
             \o <<". Please check your API key is correct and enabled.">>
        ELSE <<"API Error:">> \o c.core.message
    ELSE IF includes(lowerFallbackMessage, "quota")
    THEN <<"API quota exceeded. Please check your plan and billing details.">>
    ELSE IF includes(lowerFallbackMessage, "resource_exhausted")
            \/ includes(lowerFallbackMessage, "429")
    THEN <<"API rate limit reached. The app attempted to retry but was unsuccessful. Please wait a few minutes before trying again.">>
    ELSE IF includes(lowerFallbackMessage, "api key not valid")
    THEN <<"Invalid API Key. Please ensure it is set correctly.">>
    ELSE IF includes(lowerFallbackMessage, "safety")
    THEN <<"The request was blocked for safety reasons. Please adjust your input.">>
    ELSE fallbackMessage

(***************************************************************************)
(* withRateLimitRetry as a process: one step per awaited suspension        *)
(***************************************************************************)
NoOutcome == [kind |-> "none", value |-> NoError]

ThrownValue_wrapped(e) ==
    [NoError EXCEPT !.isError = TRUE, !.hasMessage = TRUE, !.words = handleGeminiError(e)]

\* `throw error`: the caught value itself
ThrownValue(e) == e

GatewayInit ==
    /\ pc = "call"
    /\ attempt = 0
    /\ calls = 0
    /\ delays = <<>>
    /\ error = NoError
    /\ outcome = NoOutcome

\* await apiCall() resolves: `return`
TransportSucceeds ==
    /\ pc = "call"
    /\ attempt <= maxRetries
    /\ calls' = calls + 1
    /\ pc' = "returned"
    /\ outcome' = [kind |-> "returned", value |-> NoError]
    /\ UNCHANGED <<attempt, delays, error>>

\* await apiCall() rejects with e: the catch block runs up to its await or throw
TransportFails(e) ==
    /\ pc = "call"
    /\ attempt <= maxRetries
    /\ calls' = calls + 1
    /\ error' = e
    /\ IF isRetryable(e) /\ attempt < maxRetries
       THEN /\ delays' = Append(delays, RetryDelay(attempt))
            /\ pc' = "sleep"
            /\ UNCHANGED outcome
       ELSE /\ pc' = "thrown"
            /\ outcome' = [kind |-> "thrown", value |-> ThrownValue(e)]
            /\ UNCHANGED delays
    /\ UNCHANGED attempt

\* the backoff timer fires: attempt++ and the loop goes round
BackoffElapsed ==
    /\ pc = "sleep"
    /\ attempt' = attempt + 1
    /\ pc' = "call"
    /\ error' = NoError       \* the catch binding goes out of scope
    /\ UNCHANGED <<calls, delays, outcome>>

StoreIdle ==
    /\ testCases = <<>>
    /\ idLog = EmptyBag
    /\ deletedIds = {}
    /\ isLoading = FALSE
    /\ genModules = <<>>
    /\ genIndex = 0
    /\ allTestCasesContext = <<>>
    /\ allNewTestCases = <<>>
    /\ genIssued = <<>>
    /\ genOutstanding = 0

NotCalled == <<"not called">>

FnIdle == arg = <<>> /\ ret = NotCalled

\* DEFAULT_SETUP_INFO: nothing filled in
DEFAULT_SETUP_INFO == [appUrl |-> "", appDescription |-> ""]

NoExecError == "none"

NoService == "none"

\* initialState.cachedSuggestions: null
NoCache == [present |-> FALSE, forInputs |-> <<>>, modules |-> <<>>]

NoToast == "none"

\* the empty array useState([]) starts suggestedModules with
NoSuggestions == [t |-> "arr", v |-> <<>>]

\* no transport call has succeeded yet
NoText == <<"no response">>

\* the promise of the service function is still pending
Unsettled == [kind |-> "pending", value |-> <<>>]

\* the setup form is empty and no auto-execution is running
\* localStorage.getItem gives null: nothing under the key
NoEntry == [kind |-> "null", value |-> <<>>]

\* currentTestIndex === null
NullIndex == -1

\* analyzingModuleId === null
NoModule == 0

UiIdle ==
    /\ setupInfo = DEFAULT_SETUP_INFO
    /\ isAutoExecuting = FALSE
    /\ pendingTests = <<>>
    /\ execIndex = 0
    /\ execCalls = 0
    /\ execError = NoExecError
    /\ service = NoService
    /\ responseText = NoText
    /\ serviceResult = Unsettled
    /\ cachedSuggestions = NoCache
    /\ suggestedModules = NoSuggestions
    /\ checkedModules = {}
    /\ discLoading = FALSE
    /\ discKey = <<>>
    /\ discForce = FALSE
    /\ discError = <<>>
    /\ discToast = NoToast
    /\ discRequest = "none"
    /\ discRequests = 0
    /\ discoveredModules = <<>>
    /\ discInputs = DEFAULT_SETUP_INFO
    /\ cachedInputs = DEFAULT_SETUP_INFO
    /\ isModalOpen = FALSE
    /\ editingTestCase = <<>>
    /\ formTestCase = <<>>
    /\ submittedData = <<>>
    /\ localStorage = NoEntry
    /\ provider = "unmounted"
    /\ currentTestIndex = NullIndex
    /\ presented = {}
    /\ analyzingModuleId = NoModule

GatewayNext ==
    \/ TransportSucceeds /\ UNCHANGED storeVars /\ UNCHANGED fnVars /\ UNCHANGED uiVars
    \/ \E e \in ErrorValues : TransportFails(e) /\ UNCHANGED storeVars /\ UNCHANGED fnVars /\ UNCHANGED uiVars
    \/ BackoffElapsed /\ UNCHANGED storeVars /\ UNCHANGED fnVars /\ UNCHANGED uiVars

InitGateway == GatewayInit /\ StoreIdle /\ FnIdle /\ UiIdle

SpecGateway == InitGateway /\ [][GatewayNext]_vars

(***************************************************************************)
(* Claims about the gateway and the classifier                             *)
(***************************************************************************)
Caught == pc \in {"sleep", "thrown"}

\* C1: one call of withRateLimitRetry invokes the transport at most 3 times;
\* the k-th attempt (k = 2, 3) is preceded by exactly k-1 delays, 5000 ms and
\* then 10000 ms; a success on the third attempt comes after exactly the
\* delays 5000, 10000.
C1_RetryPolicy ==
    /\ calls <= 3
    /\ Len(delays) = (IF pc \in {"returned", "thrown"} THEN calls - 1 ELSE calls)
    /\ \A i \in 1..Len(delays) : delays[i] = <<5000, 10000>>[i]
    /\ (pc = "returned" /\ calls = 3 => delays = <<5000, 10000>>)

C1_Witness == pc = "returned" /\ calls = 3 /\ delays = <<5000, 10000>>

\* C2: when withRateLimitRetry fails, the value thrown is the error of the
\* last transport attempt itself; the gateway never backs off after an error
\* that is not retryable, so a first error that is not retryable fails the
\* call after 1 attempt and no delay.
C2_LastErrorUnchanged ==
    /\ (pc = "thrown" => outcome = [kind |-> "thrown", value |-> error])
    /\ (pc = "sleep" => isRetryable(error))
    /\ (pc = "thrown" /\ calls = 1 => delays = <<>>)

C2_Witness ==
    /\ pc = "thrown" /\ calls = 3 /\ isRetryable(error)
    /\ outcome.value = error /\ error.hasNested

\* case-insensitive substring test, as the claims state it
ContainsCI(text, needle) == \E i \in 1..Len(text) : LowerWord(text[i]) = needle

StructuredQuota(e) ==
    /\ RetryCoreError(e).found
    /\ RetryCoreError(e).core.status = "RESOURCE_EXHAUSTED"
    /\ ContainsCI(RetryCoreError(e).core.message, "quota")

RawQuota(e) ==
    /\ e.hasMessage
    /\ ContainsCI(MessageOf(e), "quota")
    /\ ContainsCI(MessageOf(e), "resource_exhausted") \/ ContainsCI(MessageOf(e), "429")

\* C3 as stated: an error whose structured record is RESOURCE_EXHAUSTED with
\* 'quota' in its message, or whose raw message has 'quota' with
\* 'resource_exhausted' or '429', is never followed by a backoff and retry.
C3_QuotaNeverRetried_Original ==
    pc = "sleep" => ~(StructuredQuota(error) \/ RawQuota(error))

\* C3 as amended: the raw message decides only when no structured record is
\* found; a quota-flavoured error is then never followed by a retry.
C3_QuotaNeverRetried ==
    pc = "sleep" =>
        ~(StructuredQuota(error) \/ (~RetryCoreError(error).found /\ RawQuota(error)))

C3_Witness ==
    /\ pc = "thrown" /\ calls = 2
    /\ StructuredQuota(error) \/ (~RetryCoreError(error).found /\ RawQuota(error))

MentionsQuotaExceeded(text) ==
    \/ includes(text, "API Quota Exceeded:")
    \/ includes(text, "API quota exceeded. Please check your plan and billing details.")

MentionsBilling(text) ==
    \/ includes(text, "This is a hard limit based on your plan. Please check your Google AI plan and billing details.")
    \/ includes(text, "API quota exceeded. Please check your plan and billing details.")

MentionsRateLimit(text) ==
    \/ includes(text, "API Rate Limit Reached:")
    \/ includes(text, "API rate limit reached. The app attempted to retry but was unsuccessful. Please wait a few minutes before trying again.")

\* C4: for a structured record with status RESOURCE_EXHAUSTED (nested or in a
\* JSON message): with 'quota' in its message the error is not retryable and
\* the classified message mentions Quota Exceeded and billing; without, the
\* error is retryable and the classified message mentions the rate limit.
C4_StructuredClassification ==
    (Caught /\ RetryCoreError(error).found
        /\ RetryCoreError(error).core.status = "RESOURCE_EXHAUSTED") =>
    IF ContainsCI(RetryCoreError(error).core.message, "quota")
    THEN /\ ~isRetryable(error)
         /\ MentionsQuotaExceeded(handleGeminiError(error))
         /\ MentionsBilling(handleGeminiError(error))
    ELSE /\ isRetryable(error)
         /\ MentionsRateLimit(handleGeminiError(error))

\* C5: with no structured record, the raw message decides, in this order:
\* 'quota' -> quota exceeded, never retried; 'resource_exhausted' or '429'
\* -> rate limited, retried while attempts remain; 'api key not valid' ->
\* invalid credential, never retried; 'safety' -> safety block, never retried.
C5_FallbackClassification ==
    (Caught /\ ~RetryCoreError(error).found /\ error.hasMessage) =>
    LET m == MessageOf(error) IN
    IF ContainsCI(m, "quota")
    THEN /\ handleGeminiError(error) = <<"API quota exceeded. Please check your plan and billing details.">>
         /\ pc = "thrown"
    ELSE IF ContainsCI(m, "resource_exhausted") \/ ContainsCI(m, "429")
    THEN /\ MentionsRateLimit(handleGeminiError(error))
         /\ (calls < 3 => pc = "sleep")
    ELSE IF ContainsCI(m, "api key not valid")
    THEN /\ handleGeminiError(error) = <<"Invalid API Key. Please ensure it is set correctly.">>
         /\ pc = "thrown"
    ELSE IF ContainsCI(m, "safety")
    THEN /\ handleGeminiError(error) = <<"The request was blocked for safety reasons. Please adjust your input.">>
         /\ pc = "thrown"
    ELSE TRUE

(***************************************************************************)
(* Strings as sequences of characters                                      *)
(***************************************************************************)
LowerLetters == <<"a", "b", "c", "d", "e", "f", "g", "h", "i", "j", "k", "l", "m",
                  "n", "o", "p", "q", "r", "s", "t", "u", "v", "w", "x", "y", "z">>

UpperLetters == <<"A", "B", "C", "D", "E", "F", "G", "H", "I", "J", "K", "L", "M",
                  "N", "O", "P", "Q", "R", "S", "T", "U", "V", "W", "X", "Y", "Z">>

Digits == <<"0", "1", "2", "3", "4", "5", "6", "7", "8", "9">>

\* the characters JavaScript's \s and trim() treat as white space
IsWhitespace(c) == c \in {" ", "\t", "\n"}

IsDigit(c) == c \in Range(Digits)

\* the class [a-zA-Z0-9 ]
IsAlnumOrSpace(c) == c \in Range(LowerLetters) \cup Range(UpperLetters) \cup Range(Digits) \cup {" "}

toUpperCaseChar(c) ==
    IF c \in Range(LowerLetters)
    THEN UpperLetters[CHOOSE i \in 1..Len(LowerLetters) : LowerLetters[i] = c]
    ELSE c

\* String.prototype.toUpperCase
toUpperCase(s) == [i \in 1..Len(s) |-> toUpperCaseChar(s[i])]

\* String.prototype.substring(0, n)
substring0(s, n) == SubSeq(s, 1, IF Len(s) < n THEN Len(s) ELSE n)

RECURSIVE trimStart(_)
trimStart(s) == IF s # <<>> /\ IsWhitespace(Head(s)) THEN trimStart(Tail(s)) ELSE s

RECURSIVE trimEnd(_)
trimEnd(s) ==
    IF s # <<>> /\ IsWhitespace(s[Len(s)]) THEN trimEnd(SubSeq(s, 1, Len(s) - 1)) ELSE s

\* String.prototype.trim
trim(s) == trimEnd(trimStart(s))

RECURSIVE keepAlnumOrSpace(_)
\* replace(/[^a-zA-Z0-9 ]/g, "")
keepAlnumOrSpace(s) ==
    IF s = <<>> THEN <<>>
    ELSE IF IsAlnumOrSpace(Head(s)) THEN <<Head(s)>> \o keepAlnumOrSpace(Tail(s))
    ELSE keepAlnumOrSpace(Tail(s))

RECURSIVE splitWhitespace(_, _)
\* split(/\s+/): `word` is the piece being read; a run of white space ends it
splitWhitespace(s, word) ==
    IF s = <<>> THEN <<word>>
    ELSE IF IsWhitespace(Head(s)) THEN <<word>> \o splitWhitespace(trimStart(s), <<>>)
    ELSE splitWhitespace(Tail(s), Append(word, Head(s)))

RECURSIVE firstLetters(_)
\* words.map(w => w[0]).join('')
firstLetters(words) ==
    IF words = <<>> THEN <<>>
    ELSE (IF Head(words) = <<>> THEN <<>> ELSE <<Head(words)[1]>>) \o firstLetters(Tail(words))

(***************************************************************************)
(* Identifier allocator                                                    *)
(***************************************************************************)
generateModuleAbbreviation(moduleName) ==
    IF moduleName = <<>> \/ trim(moduleName) = <<>> THEN <<"G", "E", "N">>
    ELSE LET words == splitWhitespace(trim(keepAlnumOrSpace(moduleName)), <<>>) IN
         IF Len(words) > 1 THEN substring0(toUpperCase(firstLetters(words)), 4)
         ELSE toUpperCase(substring0(words[1], 4))

\* String.prototype.startsWith
startsWith(s, prefix) == Len(s) >= Len(prefix) /\ SubSeq(s, 1, Len(prefix)) = prefix

RECURSIVE trailingDigits(_)
trailingDigits(s) ==
    IF s # <<>> /\ IsDigit(s[Len(s)])
    THEN Append(trailingDigits(SubSeq(s, 1, Len(s) - 1)), s[Len(s)])
    ELSE <<>>

\* id.match(/_(\d+)$/): the captured digits, <<>> when there is no match
matchTrailingNumber(id) ==
    LET d == trailingDigits(id) IN
    IF d # <<>> /\ Len(id) > Len(d) /\ id[Len(id) - Len(d)] = "_" THEN d ELSE <<>>

RECURSIVE parseInt(_)
\* parseInt(digits, 10), digits non-empty
parseInt(d) ==
    IF d = <<>> THEN 0
    ELSE 10 * parseInt(SubSeq(d, 1, Len(d) - 1))
         + ((CHOOSE i \in 1..Len(Digits) : Digits[i] = d[Len(d)]) - 1)

RECURSIVE numberToString(_)
\* String(n) for n >= 0
numberToString(n) ==
    IF n < 10 THEN <<Digits[n + 1]>>
    ELSE Append(numberToString(n \div 10), Digits[(n % 10) + 1])

RECURSIVE padStart(_, _, _)
\* String.prototype.padStart(len, fill) with a one-character fill
padStart(s, len, fill) == IF Len(s) >= len THEN s ELSE padStart(<<fill>> \o s, len, fill)

RECURSIVE maxIdOf(_, _, _)
\* the forEach that raises maxId over testsForThisModule
maxIdOf(tests, moduleAbbr, maxId) ==
    IF tests = <<>> THEN maxId
    ELSE LET tc == Head(tests)
             d == matchTrailingNumber(tc.id)
             num == parseInt(d)
         IN maxIdOf(Tail(tests), moduleAbbr,
                    IF startsWith(tc.id, Append(moduleAbbr, "_")) /\ d # <<>> /\ num > maxId
                    THEN num ELSE maxId)

RECURSIVE filterByModule(_, _)
\* allTestCases.filter(tc => tc.module === moduleName)
filterByModule(tcs, moduleName) ==
    IF tcs = <<>> THEN <<>>
    ELSE IF Head(tcs).module = moduleName
         THEN <<Head(tcs)>> \o filterByModule(Tail(tcs), moduleName)
         ELSE filterByModule(Tail(tcs), moduleName)

generateNextIdForModule_truncated(moduleName, allTestCases) ==
    LET moduleAbbr == generateModuleAbbreviation(moduleName)
        maxId == maxIdOf(filterByModule(allTestCases, moduleName), moduleAbbr, 0)
        text == padStart(numberToString(maxId + 1), 3, "0")
    IN moduleAbbr \o <<"_">> \o SubSeq(text, Len(text) - 2, Len(text))

generateNextIdForModule(moduleName, allTestCases) ==
    LET moduleAbbr == generateModuleAbbreviation(moduleName)
        testsForThisModule == filterByModule(allTestCases, moduleName)
        maxId == maxIdOf(testsForThisModule, moduleAbbr, 0)
        newIdNumber == maxId + 1
    IN moduleAbbr \o <<"_">> \o padStart(numberToString(newIdNumber), 3, "0")

(***************************************************************************)
(* generateModuleAbbreviation applied to every short module name           *)
(***************************************************************************)
MaxNameLen == 5

NameAlphabet == {"a", "B", "7", " ", "!", "\t"}

SampleNames == {
    <<"P", "a", "y", "m", "e", "n", "t">>,
    <<"U", "s", "e", "r", " ", "L", "o", "g", "i", "n", " ", "&", " ", "R", "e", "g", "i", "s", "t", "r", "a", "t", "i", "o", "n", "!">>,
    <<"a", " ", "b", " ", "c", " ", "d", " ", "e">> }

ModuleNameInputs == SeqsUpTo(NameAlphabet, MaxNameLen) \cup SampleNames

InitAbbreviation ==
    /\ GatewayInit /\ StoreIdle /\ UiIdle
    /\ arg \in ModuleNameInputs
    /\ ret = NotCalled

ApplyAbbreviation ==
    /\ ret = NotCalled
    /\ ret' = generateModuleAbbreviation(arg)
    /\ UNCHANGED <<arg, gatewayVars, storeVars, uiVars>>

SpecAbbreviation == InitAbbreviation /\ [][ApplyAbbreviation]_vars

\* the words of a name as the claim counts them: maximal runs of letters and
\* digits, once every other character except the space is dropped
RECURSIVE WordsOfName(_, _)
WordsOfName(s, word) ==
    IF s = <<>> THEN (IF word = <<>> THEN <<>> ELSE <<word>>)
    ELSE IF Head(s) = " "
         THEN (IF word = <<>> THEN <<>> ELSE <<word>>) \o WordsOfName(Tail(s), <<>>)
    ELSE IF IsAlnumOrSpace(Head(s)) THEN WordsOfName(Tail(s), Append(word, Head(s)))
    ELSE WordsOfName(Tail(s), word)

IsUpperCaseText(s) == \A i \in 1..Len(s) : s[i] \notin Range(LowerLetters)

\* C9: for every module name the abbreviation is uppercase, non-empty and at
\* most 4 long; the empty name gives GEN; several words give their first
\* letters (at most 4); a single word gives its first 4 characters.
C9_Abbreviation ==
    ret # NotCalled =>
        /\ IsUpperCaseText(ret)
        /\ ret # <<>>
        /\ Len(ret) <= 4
        /\ (arg = <<>> => ret = <<"G", "E", "N">>)
        /\ LET w == WordsOfName(arg, <<>>) IN
           /\ (Len(w) > 1 =>
                 ret = [i \in 1..(IF Len(w) < 4 THEN Len(w) ELSE 4) |-> toUpperCaseChar(w[i][1])])
           /\ (Len(w) = 1 =>
                 ret = [i \in 1..(IF Len(w[1]) < 4 THEN Len(w[1]) ELSE 4) |-> toUpperCaseChar(w[1][i])])

(***************************************************************************)
(* Test cases                                                              *)
(***************************************************************************)
TestCase(id, module, title, status) ==
    [id |-> id, module |-> module, title |-> title, status |-> status]

(***************************************************************************)
(* generateNextIdForModule applied to lists of cases sharing a module      *)
(***************************************************************************)
MaxExisting == 2

IdModules == { <<"a", " ", "b">>, <<"c">>, <<"U", "s", "e", "r", " ", "L", "o", "g", "i", "n", " ", "&", " ", "R", "e", "g", "i", "s", "t", "r", "a", "t", "i", "o", "n", "!">> }

\* ids as the allocator writes them; a case keeps its id when its module is
\* edited, so a module's cases may carry another module's tag
ExistingIds == { <<"A", "B", "_", "0", "0", "4">>, <<"A", "B", "_", "0", "0", "7">>, <<"A", "B", "_", "0", "1", "2">>, <<"A", "B", "_", "9", "9", "9">>, <<"A", "B", "_", "1", "0", "0", "0">>,
                 <<"C", "_", "0", "0", "1">>, <<"U", "L", "R", "_", "0", "0", "4">> }

ExistingLists(moduleName) ==
    SeqsUpTo({TestCase(id, moduleName, "t1", "Pending") : id \in ExistingIds}, MaxExisting)

InitNextId ==
    /\ GatewayInit /\ StoreIdle /\ UiIdle
    /\ \E m \in IdModules : \E l \in ExistingLists(m) :
           arg = [moduleName |-> m, allTestCases |-> l]
    /\ ret = NotCalled

ApplyNextId ==
    /\ ret = NotCalled
    /\ ret' = generateNextIdForModule(arg.moduleName, arg.allTestCases)
    /\ UNCHANGED <<arg, gatewayVars, storeVars, uiVars>>

SpecNextId == InitNextId /\ [][ApplyNextId]_vars

\* what the claim expects, written out: the tag of each module, the tag and
\* number of each existing id, and the 3-digit rendering of each next number
ExpectedTag(m) ==
    CASE m = <<"a", " ", "b">> -> <<"A", "B">>
      [] m = <<"c">> -> <<"C">>
      [] m = <<"U", "s", "e", "r", " ", "L", "o", "g", "i", "n", " ", "&", " ", "R", "e", "g", "i", "s", "t", "r", "a", "t", "i", "o", "n", "!">> -> <<"U", "L", "R">>

TagOfId(id) ==
    CASE id \in {<<"A", "B", "_", "0", "0", "4">>, <<"A", "B", "_", "0", "0", "7">>, <<"A", "B", "_", "0", "1", "2">>, <<"A", "B", "_", "9", "9", "9">>, <<"A", "B", "_", "1", "0", "0", "0">>} -> <<"A", "B">>
      [] id = <<"C", "_", "0", "0", "1">> -> <<"C">>
      [] id = <<"U", "L", "R", "_", "0", "0", "4">> -> <<"U", "L", "R">>

NumberOfId(id) ==
    CASE id = <<"A", "B", "_", "0", "0", "4">> -> 4
      [] id = <<"A", "B", "_", "0", "0", "7">> -> 7
      [] id = <<"A", "B", "_", "0", "1", "2">> -> 12
      [] id = <<"A", "B", "_", "9", "9", "9">> -> 999
      [] id = <<"A", "B", "_", "1", "0", "0", "0">> -> 1000
      [] id = <<"C", "_", "0", "0", "1">> -> 1
      [] id = <<"U", "L", "R", "_", "0", "0", "4">> -> 4

ExpectedSuffix(n) ==
    CASE n = 1 -> <<"0", "0", "1">>
      [] n = 2 -> <<"0", "0", "2">>
      [] n = 5 -> <<"0", "0", "5">>
      [] n = 8 -> <<"0", "0", "8">>
      [] n = 13 -> <<"0", "1", "3">>
      [] n = 1000 -> <<"1", "0", "0", "0">>
      [] n = 1001 -> <<"1", "0", "0", "1">>

MaxSuffixWithTag(list, tag) ==
    Max({0} \cup {NumberOfId(list[i].id) : i \in {k \in 1..Len(list) : TagOfId(list[k].id) = tag}})

\* C7: for a list of cases sharing a module, the next id is the module's tag,
\* '_', and N = (largest suffix among the ids with that tag, 0 if none) + 1,
\* padded with zeros to 3 digits and never cut (999 -> 1000).
C7_NextId ==
    ret # NotCalled =>
        ret = ExpectedTag(arg.moduleName) \o <<"_">>
              \o ExpectedSuffix(MaxSuffixWithTag(arg.allTestCases, ExpectedTag(arg.moduleName)) + 1)

C7_Witness ==
    /\ arg.moduleName = <<"a", " ", "b">>
    /\ Len(arg.allTestCases) = 2
    /\ arg.allTestCases[1].id = <<"A", "B", "_", "9", "9", "9">>
    /\ arg.allTestCases[2].id = <<"A", "B", "_", "0", "0", "7">>
    /\ ret = <<"A", "B", "_", "1", "0", "0", "0">>

(***************************************************************************)
(* The store: appReducer and the handlers that dispatch to it              *)
(***************************************************************************)
MaxAssigned == 2

MaxImportRows == 2

MaxDrafts == 2

\* module names the user works with, in the order availableModules sorts
\* them; the first two are different names with the same abbreviation
ModuleOrder == << <<"a", " ", "b">>, <<"a", "b">>, <<"c">> >>

ModuleNames == Range(ModuleOrder)

\* the title typed into the add form, of an imported row and of a draft
NewTitle == "t1"

\* case 'ADD_TEST_CASES'
ADD_TEST_CASES(tcs, payload) == tcs \o payload

\* case 'UPDATE_TEST_CASE'
UPDATE_TEST_CASE(tcs, payload) ==
    [i \in 1..Len(tcs) |-> IF tcs[i].id = payload.id THEN payload ELSE tcs[i]]

RECURSIVE DELETE_TEST_CASE(_, _)
\* case 'DELETE_TEST_CASE'
DELETE_TEST_CASE(tcs, id) ==
    IF tcs = <<>> THEN <<>>
    ELSE IF Head(tcs).id # id THEN <<Head(tcs)>> \o DELETE_TEST_CASE(Tail(tcs), id)
    ELSE DELETE_TEST_CASE(Tail(tcs), id)

RECURSIVE IdsOf(_)
\* the bag of the ids of a list of cases
IdsOf(tcs) == IF tcs = <<>> THEN EmptyBag ELSE SetToBag({Head(tcs).id}) (+) IdsOf(Tail(tcs))

\* { ...data, id: newId, status: TestStatus.PENDING }: the fields of the data,
\* then the id and the status over them
newTestCaseOf(data, newId) ==
    [f \in (DOMAIN data) \cup {"id", "status"} |->
        IF f = "id" THEN newId ELSE IF f = "status" THEN "Pending" ELSE data[f]]

RECURSIVE allocateEach(_, _)
\* the forEach of handleImportCSV: each row gets the next id of its module
\* over the running list, and joins that list
allocateEach(rows, running) ==
    IF rows = <<>> THEN <<>>
    ELSE LET newTestCase == newTestCaseOf(Head(rows),
                                generateNextIdForModule(Head(rows).module, running))
         IN <<newTestCase>> \o allocateEach(Tail(rows), Append(running, newTestCase))

generatedTestCase_draftStatus(data, moduleName, newId) ==
    [f \in {"id", "module", "status"} \cup ({"title", "steps"} \cap DOMAIN data) |->
        CASE f = "id" -> newId
          [] f = "module" -> moduleName
          [] f = "status" -> IF "status" \in DOMAIN data THEN data.status ELSE "Pending"
          [] OTHER -> data[f]]

\* the newTestCase literal of runGeneration: the fields it names, taken from
\* the draft; a field the draft lacks is undefined, here absent
generatedTestCase(data, moduleName, newId) ==
    [f \in {"id", "module", "status"} \cup ({"title", "steps"} \cap DOMAIN data) |->
        CASE f = "id" -> newId
          [] f = "module" -> moduleName
          [] f = "status" -> "Pending"
          [] OTHER -> data[f]]

RECURSIVE generateEach(_, _, _)
\* the forEach of runGeneration over the drafts of one module
generateEach(generatedData, moduleName, running) ==
    IF generatedData = <<>> THEN <<>>
    ELSE LET newTestCase == generatedTestCase(Head(generatedData), moduleName,
                                generateNextIdForModule(moduleName, running))
         IN <<newTestCase>>
              \o generateEach(Tail(generatedData), moduleName, Append(running, newTestCase))

StoreInit ==
    /\ testCases = <<>>
    /\ idLog = EmptyBag
    /\ deletedIds = {}
    /\ isLoading = FALSE
    /\ genModules = <<>>
    /\ genIndex = 0
    /\ allTestCasesContext = <<>>
    /\ allNewTestCases = <<>>
    /\ genIssued = <<>>
    /\ genOutstanding = 0

genVars == <<isLoading, genModules, genIndex, allTestCasesContext, allNewTestCases,
            genIssued, genOutstanding>>

\* handleFormSubmit, no case being edited: a new case
handleFormSubmitNew(testCaseData) ==
    /\ BagCardinality(idLog) < MaxAssigned
    /\ LET newId == generateNextIdForModule(testCaseData.module, testCases)
           newTestCase == newTestCaseOf(testCaseData, newId)
       IN /\ testCases' = ADD_TEST_CASES(testCases, <<newTestCase>>)
          /\ idLog' = idLog (+) SetToBag({newId})
    /\ UNCHANGED <<deletedIds, genVars>>

\* the same with the module and the title the form holds
handleFormSubmitAdd(module, title) ==
    handleFormSubmitNew([module |-> module, title |-> title])

\* handleFormSubmit with editingTestCase set: the form keeps the id and the
\* status of the case and submits it with the module typed into the form
handleFormSubmitEdit(i, module) ==
    /\ i \in 1..Len(testCases)
    /\ testCases' = UPDATE_TEST_CASE(testCases, [testCases[i] EXCEPT !.module = module])
    /\ UNCHANGED <<idLog, deletedIds, genVars>>

\* handleDeleteTestCase, confirmed
handleDeleteTestCase(i) ==
    /\ i \in 1..Len(testCases)
    /\ testCases' = DELETE_TEST_CASE(testCases, testCases[i].id)
    /\ deletedIds' = deletedIds \cup {testCases[i].id}
    /\ UNCHANGED <<idLog, genVars>>

\* handleImportCSV, reader.onload with the parsed rows
handleImportCSV(parsedData) ==
    /\ BagCardinality(idLog) + Len(parsedData) <= MaxAssigned
    /\ LET newTestCases == allocateEach(parsedData, testCases)
       IN /\ testCases' = ADD_TEST_CASES(testCases, newTestCases)
          /\ idLog' = idLog (+) IdsOf(newTestCases)
    /\ UNCHANGED <<deletedIds, genVars>>

\* the selected modules, in availableModules order
Selections ==
    {FilterSeq(ModuleOrder, chosen) : chosen \in (SUBSET ModuleNames) \ {{}}}

\* the arguments of a generateTestCasesWithGemini call that tell calls apart:
\* the module and existingTestsForModule.length over the running list
generationCall_storeCount(moduleName, running) ==
    [module |-> moduleName, existing |-> Len(filterByModule(testCases, moduleName))]

generationCall(moduleName, running) ==
    [module |-> moduleName, existing |-> Len(filterByModule(running, moduleName))]

\* runGeneration up to its first await
runGenerationStart(modules) ==
    /\ ~isLoading
    /\ isLoading' = TRUE
    /\ genModules' = modules
    /\ genIndex' = 1
    /\ allNewTestCases' = <<>>
    /\ allTestCasesContext' = testCases
    /\ genIssued' = <<generationCall(modules[1], testCases)>>
    /\ genOutstanding' = 1
    /\ UNCHANGED <<testCases, idLog, deletedIds>>

\* generateTestCasesWithGemini resolves with the drafts for modules[i]; after
\* the last module the loop ends and the new cases are dispatched
runGenerationResolvedWith(generatedData) ==
    /\ isLoading
    /\ BagCardinality(idLog) + Len(allNewTestCases) + Len(generatedData) <= MaxAssigned
    /\ UNCHANGED deletedIds
    /\ LET moduleName == genModules[genIndex]
           created == generateEach(generatedData, moduleName, allTestCasesContext)
           allNew == allNewTestCases \o created
       IN IF genIndex < Len(genModules)
          THEN /\ allNewTestCases' = allNew
               /\ allTestCasesContext' = allTestCasesContext \o created
               /\ genIndex' = genIndex + 1
               /\ genIssued' = Append(genIssued,
                      generationCall(genModules[genIndex + 1], allTestCasesContext \o created))
               /\ genOutstanding' = genOutstanding - 1 + 1
               /\ UNCHANGED <<testCases, idLog, isLoading, genModules>>
          ELSE /\ testCases' = (IF allNew # <<>> THEN ADD_TEST_CASES(testCases, allNew)
                                ELSE testCases)
               /\ idLog' = idLog (+) IdsOf(allNew)
               /\ isLoading' = FALSE
               /\ genModules' = <<>>
               /\ genIndex' = 0
               /\ allNewTestCases' = <<>>
               /\ allTestCasesContext' = <<>>
               /\ genOutstanding' = genOutstanding - 1
               /\ UNCHANGED genIssued

\* the same with n drafts that carry a title only
runGenerationResolved(n) == runGenerationResolvedWith([k \in 1..n |-> [title |-> NewTitle]])

\* generateTestCasesWithGemini rejects: the catch block returns
runGenerationRejected ==
    /\ isLoading
    /\ isLoading' = FALSE
    /\ genModules' = <<>>
    /\ genIndex' = 0
    /\ allNewTestCases' = <<>>
    /\ allTestCasesContext' = <<>>
    /\ genOutstanding' = genOutstanding - 1
    /\ UNCHANGED <<testCases, idLog, deletedIds, genIssued>>

Init == GatewayInit /\ StoreInit /\ FnIdle /\ UiIdle

Next ==
    \/ \E m \in ModuleNames :
           handleFormSubmitAdd(m, NewTitle) /\ UNCHANGED <<gatewayVars, fnVars, uiVars>>
    \/ \E i \in 1..Len(testCases), m \in ModuleNames :
           handleFormSubmitEdit(i, m) /\ UNCHANGED <<gatewayVars, fnVars, uiVars>>
    \/ \E i \in 1..Len(testCases) :
           handleDeleteTestCase(i) /\ UNCHANGED <<gatewayVars, fnVars, uiVars>>
    \/ \E rows \in SeqsUpTo([module : ModuleNames, title : {NewTitle}], MaxImportRows) :
           handleImportCSV(rows) /\ UNCHANGED <<gatewayVars, fnVars, uiVars>>
    \/ \E modules \in Selections :
           runGenerationStart(modules) /\ UNCHANGED <<gatewayVars, fnVars, uiVars>>
    \/ \E n \in 0..MaxDrafts :
           runGenerationResolved(n) /\ UNCHANGED <<gatewayVars, fnVars, uiVars>>
    \/ runGenerationRejected /\ UNCHANGED <<gatewayVars, fnVars, uiVars>>

Spec == Init /\ [][Next]_vars

\* C6: no two test cases in the store have the same id.
C6_UniqueIds ==
    \A i, j \in 1..Len(testCases) : i # j => testCases[i].id # testCases[j].id

\* C8: an id once assigned to a test case is never assigned to a test case
\* created later, even after the first case was deleted: no case in the
\* store carries the id of a deleted case.
C8_NoIdReuse ==
    \A i \in 1..Len(testCases) : testCases[i].id \notin deletedIds

(***************************************************************************)
(* Tolerant response parser.  Model output is a sequence of characters;    *)
(* the three-backtick fence and the tag json are one element each.         *)
(***************************************************************************)
\* the three backticks of a code fence
Fence == "<fence>"

JsonTag == "json"

Quote == "\""

\* a value JSON.parse returns: t is its kind, v its content (the digits of
\* a number, the characters of a string, the items of an array, the members
\* of an object)
JsonValue(t, v) == [t |-> t, v |-> v]

\* the `null` returned by parseJsonFromMarkdown for "no value"
Null == JsonValue("null", <<>>)

ParseFailed == [ok |-> FALSE, pos |-> 0, val |-> Null]

Parsed(val, pos) == [ok |-> TRUE, pos |-> pos, val |-> val]

RECURSIVE skipWhitespace(_, _)
skipWhitespace(s, i) ==
    IF i <= Len(s) /\ IsWhitespace(s[i]) THEN skipWhitespace(s, i + 1) ELSE i

RECURSIVE parseNumber(_, _, _)
\* a run of digits starting at i
parseNumber(s, i, digits) ==
    IF i <= Len(s) /\ IsDigit(s[i]) THEN parseNumber(s, i + 1, Append(digits, s[i]))
    ELSE Parsed(JsonValue("num", digits), i)

RECURSIVE parseString(_, _, _)
\* the characters after an opening quote up to the closing one; a raw line
\* break or tab inside a string is a syntax error
parseString(s, i, chars) ==
    IF i > Len(s) THEN ParseFailed
    ELSE IF s[i] = Quote THEN Parsed(JsonValue("str", chars), i + 1)
    ELSE IF s[i] \in {"\n", "\t"} THEN ParseFailed
    ELSE parseString(s, i + 1, Append(chars, s[i]))

RECURSIVE setMember(_, _, _)
\* obj[key] = value: a repeated key keeps its place and takes the new value
setMember(members, key, value) ==
    IF members = <<>> THEN <<[k |-> key, v |-> value]>>
    ELSE IF Head(members).k = key THEN <<[k |-> key, v |-> value]>> \o Tail(members)
    ELSE <<Head(members)>> \o setMember(Tail(members), key, value)

RECURSIVE parseValue(_, _)
RECURSIVE parseElements(_, _, _)
RECURSIVE parseMembers(_, _, _)

\* the elements of an array after "[" or ",", up to "]"
parseElements(s, i, items) ==
    LET r == parseValue(s, i)
        j == skipWhitespace(s, r.pos)
    IN IF ~r.ok \/ j > Len(s) THEN ParseFailed
       ELSE IF s[j] = "," THEN parseElements(s, j + 1, Append(items, r.val))
       ELSE IF s[j] = "]" THEN Parsed(JsonValue("arr", Append(items, r.val)), j + 1)
       ELSE ParseFailed

\* the members of an object after "{" or ",", up to "}"
parseMembers(s, i, members) ==
    LET k == skipWhitespace(s, i)
        key == IF k <= Len(s) /\ s[k] = Quote THEN parseString(s, k + 1, <<>>) ELSE ParseFailed
        c == skipWhitespace(s, key.pos)
        r == IF key.ok /\ c <= Len(s) /\ s[c] = ":" THEN parseValue(s, c + 1) ELSE ParseFailed
        j == skipWhitespace(s, r.pos)
    IN IF ~r.ok \/ j > Len(s) THEN ParseFailed
       ELSE IF s[j] = "," THEN parseMembers(s, j + 1, setMember(members, key.val.v, r.val))
       ELSE IF s[j] = "}"
            THEN Parsed(JsonValue("obj", setMember(members, key.val.v, r.val)), j + 1)
       ELSE ParseFailed

\* one JSON value starting at or after i
parseValue(s, i) ==
    LET j == skipWhitespace(s, i) IN
    IF j > Len(s) THEN ParseFailed
    ELSE IF s[j] = "[" THEN
        (IF skipWhitespace(s, j + 1) <= Len(s) /\ s[skipWhitespace(s, j + 1)] = "]"
         THEN Parsed(JsonValue("arr", <<>>), skipWhitespace(s, j + 1) + 1)
         ELSE parseElements(s, j + 1, <<>>))
    ELSE IF s[j] = "{" THEN
        (IF skipWhitespace(s, j + 1) <= Len(s) /\ s[skipWhitespace(s, j + 1)] = "}"
         THEN Parsed(JsonValue("obj", <<>>), skipWhitespace(s, j + 1) + 1)
         ELSE parseMembers(s, j + 1, <<>>))
    ELSE IF s[j] = Quote THEN parseString(s, j + 1, <<>>)
    ELSE IF IsDigit(s[j]) /\ s[j] # "0" THEN parseNumber(s, j, <<>>)
    ELSE ParseFailed

\* JSON.parse: ok = FALSE stands for the SyntaxError it throws
JSONparse(s) ==
    LET whole(r) == IF r.ok /\ skipWhitespace(s, r.pos) = Len(s) + 1 THEN r ELSE ParseFailed
    IN whole(parseValue(s, 1))

\* index of the first fence at or after i, 0 when there is none
RECURSIVE indexOfFence(_, _)
indexOfFence(s, i) ==
    IF i > Len(s) THEN 0 ELSE IF s[i] = Fence THEN i ELSE indexOfFence(s, i + 1)

\* the match of the fence pattern (fence, optional json tag, white space,
\* lazy capture, white space, fence): the text between the first
\* fence (and its tag) and the next fence, without the white space at its ends
fenceMatch(s) ==
    LET open == indexOfFence(s, 1)
        from == IF open > 0 /\ open < Len(s) /\ s[open + 1] = JsonTag THEN open + 2 ELSE open + 1
        close == IF open > 0 THEN indexOfFence(s, from) ELSE 0
    IN IF close > 0
       THEN [matched |-> TRUE, group1 |-> trim(SubSeq(s, from, close - 1))]
       ELSE [matched |-> FALSE, group1 |-> <<>>]

RECURSIVE stripTrailingCommas(_)
\* replace(/,\s*([}\]])/g, "$1")
stripTrailingCommas(s) ==
    IF s = <<>> THEN <<>>
    ELSE LET j == skipWhitespace(s, 2) IN
         IF Head(s) = "," /\ j <= Len(s) /\ s[j] \in {"}", "]"}
         THEN <<s[j]>> \o stripTrailingCommas(SubSeq(s, j + 1, Len(s)))
         ELSE <<Head(s)>> \o stripTrailingCommas(Tail(s))

Returned(value) == [threw |-> FALSE, value |-> value]

Threw == [threw |-> TRUE, value |-> Null]

\* parseJsonFromMarkdown has not been called yet
NotParsed == [threw |-> FALSE, value |-> JsonValue("none", <<>>)]

\* the text handed to JSON.parse: fence content when a fence holds any
extractJsonString(markdownString) ==
    LET captured(jsonString, match) ==
            IF match.matched /\ match.group1 # <<>> THEN trim(match.group1) ELSE jsonString
        extracted(jsonString) == captured(jsonString, fenceMatch(jsonString))
    IN extracted(trim(markdownString))

parseJsonFromMarkdown_uncaughtRetry(markdownString) ==
    LET tried(first, retry) ==
            IF first.ok THEN Returned(first.val)
            ELSE IF retry.ok THEN Returned(retry.val)
            ELSE Threw
        parsed(jsonString) ==
            IF jsonString = <<>> THEN Returned(Null)
            ELSE tried(JSONparse(jsonString), JSONparse(stripTrailingCommas(jsonString)))
    IN parsed(extractJsonString(markdownString))

\* try { JSON.parse(jsonString) }, in its catch block the retry on
\* fixedJsonString, and null when that throws as well
parseJsonFromMarkdown(markdownString) ==
    LET tried(first, retry) ==
            IF first.ok THEN Returned(first.val)
            ELSE IF retry.ok THEN Returned(retry.val)
            ELSE Returned(Null)
        parsed(jsonString) ==
            IF jsonString = <<>> THEN Returned(Null)
            ELSE tried(JSONparse(jsonString), JSONparse(stripTrailingCommas(jsonString)))
    IN parsed(extractJsonString(markdownString))

(***************************************************************************)
(* parseJsonFromMarkdown applied to every short model output               *)
(***************************************************************************)
MaxBodyLen == 4

BodyChars == {"[", "]", "{", "}", ",", Quote, "1", " "}

Bodies == SeqsUpTo(BodyChars, MaxBodyLen)

\* the ways the model wraps its answer
Wrapped(form, body) ==
    CASE form = "bare" -> body
      [] form = "fenced" -> <<Fence>> \o body \o <<Fence>>
      [] form = "json fenced" -> <<Fence, JsonTag, "\n">> \o body \o <<"\n", Fence>>
      [] form = "prose" -> <<"a", " ", Fence>> \o body \o <<Fence, "\n", "a">>
      [] form = "unclosed" -> <<Fence, JsonTag>> \o body

WrapForms == {"bare", "fenced", "json fenced", "prose", "unclosed"}

SampleOutputs == {
    <<"{", Quote, "a", Quote, ":", "[", "1", ",", "]", ",", "}">>,
    <<"{", Quote, "a", Quote, ":", "1", ",", Quote, "a", Quote, ":", "[", "]", "}">>,
    <<"a">>,
    <<Fence, JsonTag, Fence>>,
    <<" ", "\n", "\t">> }

ParserInputs == {Wrapped(f, b) : f \in WrapForms, b \in Bodies} \cup SampleOutputs

InitParse ==
    /\ GatewayInit /\ StoreIdle /\ UiIdle
    /\ arg \in ParserInputs
    /\ ret = NotParsed

ApplyParse ==
    /\ ret = NotParsed
    /\ ret' = parseJsonFromMarkdown(arg)
    /\ UNCHANGED <<arg, gatewayVars, storeVars, uiVars>>

SpecParse == InitParse /\ [][ApplyParse]_vars

\* C10: parseJsonFromMarkdown never throws; it returns null exactly when the
\* text left after trimming and fence extraction is empty or is not JSON even
\* after the trailing-comma repair, and the parsed value otherwise.
C10_NeverThrows ==
    ret # NotParsed =>
        /\ ~ret.threw
        /\ LET text == extractJsonString(arg) IN
           IF text = <<>> \/ (~JSONparse(text).ok /\ ~JSONparse(stripTrailingCommas(text)).ok)
           THEN ret.value = Null
           ELSE ret.value \in {JSONparse(text).val, JSONparse(stripTrailingCommas(text)).val}
                /\ ret.value # Null
        /\ (arg = <<" ", "\n", "\t">> => ret.value = Null)
        /\ (arg = <<"a">> => ret.value = Null)
        /\ (arg = <<"[", "1", ",", "]">> =>
                ret.value = JsonValue("arr", <<JsonValue("num", <<"1">>)>>))
        /\ (arg = <<Fence, "[", "1", Fence>> => ret.value = Null)

C10_Witness ==
    /\ ret # NotParsed
    /\ arg = <<Fence, JsonTag, "\n", "[", "1", ",", "\n", Fence>>
    /\ ret = Returned(Null)

(***************************************************************************)
(* parseJsonFromMarkdown applied to fenced serializations that carry a     *)
(* trailing comma in every non-empty array and object                      *)
(***************************************************************************)
MaxTextLen == 2

\* characters of the string values of a payload
TextChars == {"a", ",", "]", "}", " "}

StringValues == {JsonValue("str", t) : t \in SeqsUpTo(TextChars, MaxTextLen)}

AtomValues == StringValues \cup {JsonValue("num", <<"1">>)}

ArrayValues == {JsonValue("arr", <<>>)} \cup {JsonValue("arr", <<a>>) : a \in AtomValues}

ObjectValues == {JsonValue("obj", <<[k |-> <<"a">>, v |-> a]>>) : a \in AtomValues}

\* the payloads: atoms, arrays and objects of atoms, and arrays of those
PayloadValues ==
    AtomValues \cup ArrayValues \cup ObjectValues
      \cup {JsonValue("arr", <<JsonValue("num", <<"1">>), c>>) : c \in ArrayValues \cup ObjectValues}

RECURSIVE serialize(_, _)
\* the JSON text of a value; `comma` is what is written before the closing
\* bracket of a non-empty array or object (nothing, or a trailing comma)
serialize(value, comma) ==
    LET RECURSIVE items(_)
        items(vs) ==
            IF vs = <<>> THEN <<>>
            ELSE serialize(Head(vs), comma)
                   \o (IF Len(vs) > 1 THEN <<",">> ELSE comma) \o items(Tail(vs))
        RECURSIVE members(_)
        members(ms) ==
            IF ms = <<>> THEN <<>>
            ELSE <<Quote>> \o Head(ms).k \o <<Quote, ":">> \o serialize(Head(ms).v, comma)
                   \o (IF Len(ms) > 1 THEN <<",">> ELSE comma) \o members(Tail(ms))
    IN CASE value.t = "num" -> value.v
         [] value.t = "str" -> <<Quote>> \o value.v \o <<Quote>>
         [] value.t = "arr" -> <<"[">> \o items(value.v) \o <<"]">>
         [] value.t = "obj" -> <<"{">> \o members(value.v) \o <<"}">>

\* the model's answer: the payload in a json fence, with trailing commas
FencedWithTrailingCommas(value) ==
    <<Fence, JsonTag, "\n">> \o serialize(value, <<",">>) \o <<"\n", Fence>>

InitFenced ==
    /\ GatewayInit /\ StoreIdle /\ UiIdle
    /\ arg \in PayloadValues
    /\ ret = NotParsed

ApplyFenced ==
    /\ ret = NotParsed
    /\ ret' = parseJsonFromMarkdown(FencedWithTrailingCommas(arg))
    /\ UNCHANGED <<arg, gatewayVars, storeVars, uiVars>>

SpecFenced == InitFenced /\ [][ApplyFenced]_vars

\* C11: a payload wrapped in a json fence with trailing commas before its
\* closing brackets parses to the same value as its plain serialization,
\* also when its string values contain a comma followed by "]" or "}".
C11_TrailingCommaSameValue ==
    ret # NotParsed =>
        /\ parseJsonFromMarkdown(serialize(arg, <<>>)) = Returned(arg)
        /\ ret = parseJsonFromMarkdown(serialize(arg, <<>>))

(***************************************************************************)
(* Claims about batch generation (specification Spec)                      *)
(***************************************************************************)
\* tc is one of the cases of the list tcs
InList(tc, tcs) == \E j \in 1..Len(tcs) : tcs[j] = tc

\* C12: when a batch generation ends, by its last module or by a failed call,
\* the cases generated for the modules before the failing one are in the
\* store: they are not discarded.
C12_PartialResultsCommitted ==
    [][(isLoading /\ ~isLoading') =>
          \A i \in 1..Len(allNewTestCases) : InList(allNewTestCases[i], testCases')]_vars

(***************************************************************************)
(* Auto-execution batch (ResultsTab handleAutoExecution) over the store    *)
(***************************************************************************)
MaxExecCalls == 3

\* what the setup form can hold
SetupInfos == [appUrl : {"", "u"}, appDescription : {"", "d"}]

\* appReducer SET_SETUP_INFO
SET_SETUP_INFO(payload) == payload

\* SetupTab handleSubmit
handleSetupSubmit(formData) ==
    /\ setupInfo' = SET_SETUP_INFO(formData)
    /\ UNCHANGED <<isAutoExecuting, pendingTests, execIndex, execCalls, execError>>

\* the collation rank localeCompare gives the characters of an id
CollationRank(c) ==
    IF c = "_" THEN 0
    ELSE IF c \in Range(Digits) THEN CHOOSE k \in 1..Len(Digits) : Digits[k] = c
    ELSE IF c \in Range(UpperLetters)
         THEN Len(Digits) + CHOOSE k \in 1..Len(UpperLetters) : UpperLetters[k] = c
    ELSE Len(Digits) + Len(UpperLetters) + 1

RECURSIVE localeCompare(_, _)
\* a.localeCompare(b) for ids: negative, zero or positive
localeCompare(a, b) ==
    IF a = <<>> /\ b = <<>> THEN 0
    ELSE IF a = <<>> THEN -1
    ELSE IF b = <<>> THEN 1
    ELSE IF CollationRank(Head(a)) # CollationRank(Head(b))
         THEN CollationRank(Head(a)) - CollationRank(Head(b))
    ELSE localeCompare(Tail(a), Tail(b))

\* the comparator of testCasesToExecute: pending cases first, then by id
compareToExecute(a, b) ==
    IF a.status = "Pending" /\ b.status # "Pending" THEN -1
    ELSE IF a.status # "Pending" /\ b.status = "Pending" THEN 1
    ELSE localeCompare(a.id, b.id)

RECURSIVE insertSorted(_, _)
insertSorted(tc, sorted) ==
    IF sorted = <<>> THEN <<tc>>
    ELSE IF compareToExecute(tc, Head(sorted)) < 0 THEN <<tc>> \o sorted
    ELSE <<Head(sorted)>> \o insertSorted(tc, Tail(sorted))

RECURSIVE sortToExecute(_)
\* Array.prototype.sort (stable) with compareToExecute
sortToExecute(tcs) ==
    IF tcs = <<>> THEN <<>>
    ELSE insertSorted(tcs[Len(tcs)], sortToExecute(SubSeq(tcs, 1, Len(tcs) - 1)))

\* testCasesToExecute with no filter chosen
testCasesToExecute == sortToExecute(testCases)

RECURSIVE filterPending(_)
\* filter(tc => tc.status === TestStatus.PENDING)
filterPending(tcs) ==
    IF tcs = <<>> THEN <<>>
    ELSE IF Head(tcs).status = "Pending" THEN <<Head(tcs)>> \o filterPending(Tail(tcs))
    ELSE filterPending(Tail(tcs))

\* what executeTestCaseWithGemini resolves with
ExecutionResults == [status : {"Passed", "Failed", "Pending"}, actualResults : {"r"}]

ExecutionErrors == {"rate limit", "malformed"}

\* { ...testCase, status, actualResults }
withResult(testCase, result) ==
    [id |-> testCase.id, module |-> testCase.module, title |-> testCase.title,
     status |-> result.status, actualResults |-> result.actualResults]

\* handleAutoExecution up to the first await
handleAutoExecution ==
    /\ ~isAutoExecuting
    /\ filterPending(testCasesToExecute) # <<>>
    /\ setupInfo.appDescription # ""
    /\ execCalls < MaxExecCalls
    /\ isAutoExecuting' = TRUE
    /\ pendingTests' = filterPending(testCasesToExecute)
    /\ execIndex' = 1
    /\ execCalls' = execCalls + 1
    /\ execError' = NoExecError
    /\ UNCHANGED <<setupInfo, testCases>>

\* executeTestCaseWithGemini resolves for pendingTests[i]: the updated case is
\* dispatched and the loop calls for the next test, or ends
executeResolved(result) ==
    /\ isAutoExecuting
    /\ testCases' = UPDATE_TEST_CASE(testCases, withResult(pendingTests[execIndex], result))
    /\ IF execIndex < Len(pendingTests)
       THEN /\ execCalls < MaxExecCalls
            /\ execIndex' = execIndex + 1
            /\ execCalls' = execCalls + 1
            /\ UNCHANGED <<isAutoExecuting, pendingTests>>
       ELSE /\ isAutoExecuting' = FALSE
            /\ pendingTests' = <<>>
            /\ execIndex' = 0
            /\ UNCHANGED execCalls
    /\ UNCHANGED <<setupInfo, execError>>

\* executeTestCaseWithGemini rejects for pendingTests[i]: the loop is left
executeRejected(err) ==
    /\ isAutoExecuting
    /\ execError' = err
    /\ isAutoExecuting' = FALSE
    /\ pendingTests' = <<>>
    /\ execIndex' = 0
    /\ UNCHANGED <<setupInfo, execCalls, testCases>>

discoveryVars == <<cachedSuggestions, suggestedModules, checkedModules, discLoading, discKey,
                   discForce, discError, discToast, discRequest, discRequests,
                   discoveredModules, discInputs, cachedInputs>>

execFrame == <<idLog, deletedIds, genVars, gatewayVars, fnVars, service, responseText,
               serviceResult, discoveryVars,
    formVars, persistVars, manualVars, analysisVars>>

NextExecution ==
    \/ \E rows \in SeqsUpTo([module : ModuleNames, title : {NewTitle}], MaxImportRows) :
           handleImportCSV(rows) /\ UNCHANGED <<gatewayVars, fnVars, uiVars>>
    \/ \E formData \in SetupInfos :
           handleSetupSubmit(formData)
             /\ UNCHANGED <<storeVars, gatewayVars, fnVars, service, responseText, serviceResult,
                            discoveryVars, formVars, persistVars, manualVars, analysisVars>>
    \/ handleAutoExecution /\ UNCHANGED execFrame
    \/ \E result \in ExecutionResults : executeResolved(result) /\ UNCHANGED execFrame
    \/ \E err \in ExecutionErrors : executeRejected(err) /\ UNCHANGED execFrame

SpecExecution == Init /\ [][NextExecution]_vars

\* C13: when the call for test k of an auto-execution batch fails, no call is
\* issued for the later tests, what was committed for the earlier tests stays
\* in the store, tests k..N still have status Pending, and that error is the
\* one surfaced.
C13_AutoExecutionAbort ==
    [][/\ (isAutoExecuting /\ execError' # NoExecError) =>
            /\ execCalls' = execCalls
            /\ testCases' = testCases
            /\ \A j \in execIndex..Len(pendingTests) : \A n \in 1..Len(testCases') :
                   testCases'[n].id = pendingTests[j].id => testCases'[n].status = "Pending"
       /\ (~isAutoExecuting /\ ~isAutoExecuting') => execCalls' = execCalls]_vars

\* C14: a batch generation takes its modules in order with one call
\* outstanding at a time: the call for the next module is issued only after
\* the cases of the modules before it have joined the running list, so its
\* existing-test count and the ids allocated see those cases.
C14_Sequential ==
    /\ genOutstanding <= 1
    /\ isLoading =>
         LET base == Len(allTestCasesContext) - Len(allNewTestCases)
             moduleName == genModules[genIndex]
         IN /\ genOutstanding = 1
            /\ Len(genIssued) = genIndex
            /\ \A k \in 1..Len(genIssued) : genIssued[k].module = genModules[k]
            /\ base >= 0
            /\ SubSeq(allTestCasesContext, base + 1, Len(allTestCasesContext)) = allNewTestCases
            /\ \A p \in 1..Len(allNewTestCases) :
                 /\ \E k \in 1..(genIndex - 1) : allNewTestCases[p].module = genModules[k]
                 /\ allNewTestCases[p].id =
                      generateNextIdForModule(allNewTestCases[p].module,
                                              SubSeq(allTestCasesContext, 1, base + p - 1))
            /\ genIssued[genIndex].existing =
                 Len(filterByModule(allTestCasesContext, moduleName))

C14_Witness ==
    /\ isLoading
    /\ genIndex = 2
    /\ genOutstanding = 1
    /\ Len(genIssued) = 2
    /\ allNewTestCases # <<>>

(***************************************************************************)
(* The three service functions around one gateway call:                    *)
(* discoverModulesWithAI, generateTestCasesWithGemini and                  *)
(* executeTestCaseWithGemini                                               *)
(***************************************************************************)
Services == {"discover", "generate", "execute"}

serviceVars == <<service, responseText, serviceResult>>

Resolved(value) == [kind |-> "resolved", value |-> value]

Rejected(message) == [kind |-> "rejected", value |-> message]

\* response.text of a response without text parts
UndefinedText == <<"undefined">>

Str(chars) == JsonValue("str", chars)

Obj(members) == JsonValue("obj", members)

Arr(items) == JsonValue("arr", items)

\* value[key], Null standing for undefined
RECURSIVE memberOf(_, _)
memberOf(members, key) ==
    IF members = <<>> THEN Null
    ELSE IF Head(members).k = <<key>> THEN Head(members).v
    ELSE memberOf(Tail(members), key)

Property(value, key) == IF value.t = "obj" THEN memberOf(value.v, key) ELSE Null

\* !value
Falsy(value) == value = Null \/ (value.t = "str" /\ value.v = <<>>)

\* the payloads a response can carry
SuggestedModuleValue == Obj(<<[k |-> <<"name">>, v |-> Str(<<"a">>)],
                              [k |-> <<"description">>, v |-> Str(<<"a">>)]>>)

GeneratedCaseValue == Obj(<<[k |-> <<"title">>, v |-> Str(<<"a">>)],
                            [k |-> <<"steps">>, v |-> Arr(<<Str(<<"a">>)>>)]>>)

ExecutionResultWith(status) == Obj(<<[k |-> <<"status">>, v |-> Str(<<status>>)],
                                     [k |-> <<"actualResults">>, v |-> Str(<<"a">>)]>>)

ExecutionResultValue == Obj(<<[k |-> <<"status">>, v |-> Str(<<"Passed">>)],
                              [k |-> <<"actualResults">>, v |-> Str(<<"a">>)]>>)

ResponseValues ==
    { Arr(<<SuggestedModuleValue>>), Arr(<<GeneratedCaseValue>>), GeneratedCaseValue,
      ExecutionResultValue, Obj(<<[k |-> <<"status">>, v |-> Str(<<"Passed">>)]>>),
      ExecutionResultWith("Pending"), ExecutionResultWith("Skipped"),
      Obj(<<>>), Arr(<<>>), Str(<<"a">>), Str(<<>>), JsonValue("num", <<"1">>) }

\* the texts a successful transport call can return
ResponseTexts ==
    {serialize(v, <<>>) : v \in ResponseValues}
      \cup {FencedWithTrailingCommas(v) : v \in ResponseValues}
      \cup {<<"a">>, <<"[", "1">>, <<>>, <<" ">>, UndefinedText}

\* what each function requires of the parsed value
IsSuggestedModule(v) ==
    v.t = "obj" /\ Property(v, "name").t = "str" /\ Property(v, "description").t = "str"

IsGeneratedCase(v) ==
    v.t = "obj" /\ Property(v, "title").t = "str" /\ Property(v, "steps").t = "arr"

IsExecutionResult(v) ==
    v.t = "obj" /\ Property(v, "status").t = "str" /\ Property(v, "actualResults").t = "str"

RequiredStructure(s, v) ==
    CASE s = "discover" -> v.t = "arr" /\ \A i \in 1..Len(v.v) : IsSuggestedModule(v.v[i])
      [] s = "generate" -> \/ IsGeneratedCase(v)
                           \/ v.t = "arr" /\ \A i \in 1..Len(v.v) : IsGeneratedCase(v.v[i])
      [] s = "execute" -> IsExecutionResult(v)

\* the fixed enumeration of test types, in its order
ALL_TEST_TYPES ==
    <<"Functional", "UI/UX", "Negative", "EdgeCase", "Security", "Accessibility",
      "Responsiveness", "CrossBrowserCompatibility">>

\* selectedTestTypes.length > 0 ? selectedTestTypes : ALL_TEST_TYPES
validTypesOf(selectedTestTypes) ==
    IF Len(selectedTestTypes) > 0 THEN selectedTestTypes ELSE ALL_TEST_TYPES

normalizedType_alwaysFirst(tc, validTypes) ==
    IF validTypes # <<>> /\ validTypes[1] # "" THEN Str(<<validTypes[1]>>)
    ELSE Str(<<"Functional">>)

\* validTypes.includes(tc.type) ? tc.type : validTypes[0] || TestType.FUNCTIONAL
normalizedType(tc, validTypes) ==
    IF \E i \in 1..Len(validTypes) : Property(tc, "type") = Str(<<validTypes[i]>>)
    THEN Property(tc, "type")
    ELSE IF validTypes # <<>> /\ validTypes[1] # "" THEN Str(<<validTypes[1]>>)
    ELSE Str(<<"Functional">>)

\* { ...tc, type }: the own properties of tc (none for a number) and a type
withType(tc, validTypes) ==
    IF tc.t = "obj" THEN Obj(setMember(tc.v, <<"type">>, normalizedType(tc, validTypes)))
    ELSE IF tc.t = "arr" THEN Obj(setMember([i \in 1..Len(tc.v) |-> [k |-> <<"index">>, v |-> tc.v[i]]],
                                            <<"type">>, normalizedType(tc, validTypes)))
    ELSE IF tc.t = "str" THEN Obj(setMember([i \in 1..Len(tc.v) |-> [k |-> <<"index">>, v |-> Str(<<tc.v[i]>>)]],
                                            <<"type">>, normalizedType(tc, validTypes)))
    ELSE Obj(<<[k |-> <<"type">>, v |-> normalizedType(tc, validTypes)]>>)

\* discoverModulesWithAI after withRateLimitRetry returns
discoverAfterResponse(text) ==
    LET settled(parsedModules) ==
            IF Falsy(parsedModules)
            THEN Rejected(<<"Failed to parse module suggestions from Gemini.">>)
            ELSE Resolved(parsedModules)
    IN IF text = UndefinedText THEN Rejected(<<"TypeError">>)
       ELSE settled(parseJsonFromMarkdown(text).value)

\* generateTestCasesWithGemini after withRateLimitRetry returns
generateAfterResponse(text, selectedTestTypes) ==
    IF text = UndefinedText \/ trim(text) = <<>>
    THEN Rejected(<<"Gemini returned an empty response.">>)
    ELSE LET validatedTestCases(responseAsArray, validTypes) ==
                 IF \E i \in 1..Len(responseAsArray) : responseAsArray[i] = Null
                 THEN Rejected(<<"TypeError">>)  \* tc.type of null
                 ELSE Resolved(Arr([i \in 1..Len(responseAsArray) |->
                                      withType(responseAsArray[i], validTypes)]))
             settled(parsedResponse) ==
                 IF Falsy(parsedResponse)
                 THEN Rejected(<<"Failed to parse test cases from Gemini response.">>)
                 ELSE validatedTestCases(IF parsedResponse.t = "arr" THEN parsedResponse.v
                                         ELSE <<parsedResponse>>,
                                         validTypesOf(selectedTestTypes))
         IN settled(parseJsonFromMarkdown(text).value)

\* Object.values(TestStatus)
TestStatusValues == {"Pending", "Passed", "Failed", "Blocked"}

\* a value inside a template literal: a string as it is, else its text
templateText(value) == IF value.t = "str" THEN value.v ELSE serialize(value, <<>>)

\* executeTestCaseWithGemini after withRateLimitRetry returns
executeAfterResponse(text) ==
    IF text = UndefinedText THEN Rejected(<<"TypeError">>)
    ELSE LET settled(parsedResponse) ==
                 IF \/ Falsy(parsedResponse)
                    \/ Falsy(Property(parsedResponse, "status"))
                    \/ Falsy(Property(parsedResponse, "actualResults"))
                 THEN Rejected(<<"Failed to parse auto-execution result from Gemini.">>)
                 ELSE IF Property(parsedResponse, "status")
                           \notin {Str(<<st>>) : st \in TestStatusValues}
                 THEN Resolved(Obj(setMember(
                          setMember(parsedResponse.v, <<"status">>, Str(<<"Blocked">>)),
                          <<"actualResults">>,
                          Str(<<"AI returned invalid status. Original reason: ">>
                                \o templateText(Property(parsedResponse, "actualResults"))))))
                 ELSE Resolved(parsedResponse)
         IN settled(parseJsonFromMarkdown(text).value)

afterResponse(s, text) ==
    CASE s = "discover" -> discoverAfterResponse(text)
      [] s = "generate" -> generateAfterResponse(text, <<>>)
      [] s = "execute" -> executeAfterResponse(text)

\* a service function is called; discovery checks its inputs first
callService(s) ==
    /\ service = NoService
    /\ service' = s
    /\ serviceResult' =
         IF s = "discover" /\ setupInfo.appUrl = "" /\ setupInfo.appDescription = ""
         THEN Rejected(<<"Please provide an Application URL and/or Description in the Setup tab.">>)
         ELSE Unsettled
    /\ UNCHANGED <<responseText, gatewayVars>>

\* the transport call resolves: the text is parsed and the function settles
serviceTransportSucceeds(text) ==
    /\ service # NoService /\ serviceResult = Unsettled
    /\ TransportSucceeds
    /\ responseText' = text
    /\ serviceResult' = afterResponse(service, text)
    /\ UNCHANGED service

\* the transport call rejects: the gateway sleeps, or throws and the catch
\* block of the service function rethrows handleGeminiError's text
serviceTransportFails(e) ==
    /\ service # NoService /\ serviceResult = Unsettled
    /\ TransportFails(e)
    /\ serviceResult' = IF pc' = "thrown" THEN Rejected(handleGeminiError(ThrownValue(e)))
                        ELSE serviceResult
    /\ UNCHANGED <<service, responseText>>

serviceBackoffElapsed ==
    /\ BackoffElapsed
    /\ UNCHANGED serviceVars

\* the values a transport call of a service function rejects with: those of
\* the gateway whose texts have at most one word
ServiceErrors ==
    {e \in ErrorValues :
        Len(e.words) <= 1 /\ Len(e.nested.message) <= 1 /\ Len(e.parsed.message) <= 1}

serviceFrame == <<storeVars, fnVars, isAutoExecuting, pendingTests, execIndex, execCalls,
                  execError, discoveryVars,
    formVars, persistVars, manualVars, analysisVars>>

NextService ==
    \/ \E formData \in SetupInfos :
           /\ service = NoService
           /\ handleSetupSubmit(formData)
           /\ UNCHANGED <<storeVars, gatewayVars, fnVars, serviceVars, discoveryVars, formVars, persistVars, manualVars, analysisVars>>
    \/ \E s \in Services : callService(s) /\ UNCHANGED <<serviceFrame, setupInfo>>
    \/ \E text \in ResponseTexts :
           serviceTransportSucceeds(text) /\ UNCHANGED <<serviceFrame, setupInfo>>
    \/ \E e \in ServiceErrors :
           serviceTransportFails(e) /\ UNCHANGED <<serviceFrame, setupInfo>>
    \/ serviceBackoffElapsed /\ UNCHANGED <<serviceFrame, setupInfo>>

SpecService == Init /\ [][NextService]_vars

\* the value the response text parses to, Null when it does not parse
ParsedResponse ==
    IF responseText = UndefinedText THEN Null ELSE parseJsonFromMarkdown(responseText).value

\* C15: a response whose text cannot be parsed into the structure the
\* function requires makes discovery, generation and execution prediction
\* fail, and is not retried: the only transport calls are the successful one
\* and those that failed and were backed off before it.
C15_MalformedNotRetried ==
    (pc = "returned" /\ ~RequiredStructure(service, ParsedResponse)) =>
        /\ serviceResult.kind = "rejected"
        /\ calls = Len(delays) + 1

(***************************************************************************)
(* DiscoveryTab: handleDiscoverModules, handleForceDiscover and            *)
(* runActualDiscovery over discoverModulesWithAI and the single-slot cache *)
(***************************************************************************)
MaxRequests == 2

PreconditionToast == "Please provide an Application URL and/or Description in the Setup tab first."

\* JSON.stringify({ url, desc }): the two inputs, quoted, under their keys
discoveryKeyOf(info) ==
    <<"{", Quote, "url", Quote, ":", Quote, info.appUrl, Quote, ",",
      Quote, "desc", Quote, ":", Quote, info.appDescription, Quote, "}">>

isSetupForDiscovery_always(info) == TRUE

\* !!appUrl || !!appDescription
isSetupForDiscovery(info) == info.appUrl # "" \/ info.appDescription # ""

SuggestedModule(name) ==
    Obj(<<[k |-> <<"name">>, v |-> Str(<<name>>)], [k |-> <<"description">>, v |-> Str(<<"a">>)]>>)

\* what the model answers to a discovery prompt
DiscoveryTexts ==
    {serialize(v, <<>>) :
        v \in {Arr(<<SuggestedModule("a"), SuggestedModule("b")>>),
               Arr(<<SuggestedModule("b"), SuggestedModule("b")>>),
               JsonValue("num", <<"1">>)}}
      \cup {<<"a">>}

\* the rejections of the transport call tried in a discovery: a
\* RESOURCE_EXHAUSTED record that is a rate limit, one that is a quota error
DiscoveryErrors ==
    {e \in ServiceErrors : /\ e.hasNested /\ e.nested.status = "RESOURCE_EXHAUSTED"
                           /\ e.words = <<>> /\ ~e.isError
                           /\ e.nested.message \in {<<"429">>, <<"Quota">>}}

\* Object.fromEntries(modules.map(mod => [mod.name, true])): the checked names
namesOf(modules) == {Property(modules.v[i], "name") : i \in 1..Len(modules.v)}

\* the call of withRateLimitRetry is over: the next one starts afresh
gatewayRestart ==
    /\ pc' = "call"
    /\ attempt' = 0
    /\ calls' = 0
    /\ delays' = <<>>
    /\ error' = NoError
    /\ outcome' = NoOutcome

\* runActualDiscovery up to its await of discoverModulesWithAI
runActualDiscovery(discoveryKey, force) ==
    /\ discLoading' = TRUE
    /\ discError' = <<>>
    /\ suggestedModules' = NoSuggestions
    /\ discKey' = discoveryKey
    /\ discForce' = force
    /\ discInputs' = setupInfo
    /\ callService("discover")
    /\ UNCHANGED <<cachedSuggestions, cachedInputs, checkedModules, discToast>>

\* handleDiscoverModules: precondition, cache lookup, or a real discovery
handleDiscoverModules ==
    /\ ~discLoading
    /\ discRequests < MaxRequests
    /\ discRequests' = discRequests + 1
    /\ discRequest' = "discover"
    /\ UNCHANGED <<setupInfo, discoveredModules>>
    /\ IF ~isSetupForDiscovery(setupInfo)
       THEN /\ discToast' = PreconditionToast
            /\ UNCHANGED <<cachedSuggestions, suggestedModules, checkedModules, discLoading,
                           discKey, discForce, discError, serviceVars, gatewayVars,
                           discInputs, cachedInputs>>
       ELSE IF cachedSuggestions.present
                 /\ cachedSuggestions.forInputs = discoveryKeyOf(setupInfo)
       THEN /\ discToast' = "Loaded consistent results from cache."
            /\ suggestedModules' = cachedSuggestions.modules
            /\ checkedModules' = IF cachedSuggestions.modules.t = "arr"
                                 THEN namesOf(cachedSuggestions.modules)
                                 ELSE checkedModules
            /\ UNCHANGED <<cachedSuggestions, discLoading, discKey, discForce, discError,
                           serviceVars, gatewayVars, discInputs, cachedInputs>>
       ELSE runActualDiscovery(discoveryKeyOf(setupInfo), FALSE)

\* handleForceDiscover, the confirm dialog accepted
handleForceDiscover ==
    /\ ~discLoading
    /\ discRequests < MaxRequests
    /\ discRequests' = discRequests + 1
    /\ discRequest' = "force"
    /\ UNCHANGED <<setupInfo, discoveredModules>>
    /\ IF ~isSetupForDiscovery(setupInfo)
       THEN /\ discToast' = PreconditionToast
            /\ UNCHANGED <<cachedSuggestions, suggestedModules, checkedModules, discLoading,
                           discKey, discForce, discError, serviceVars, gatewayVars,
                           discInputs, cachedInputs>>
       ELSE runActualDiscovery(discoveryKeyOf(setupInfo), TRUE)

CACHE_SUGGESTIONS_keepFirst(payload) ==
    IF cachedSuggestions.present THEN cachedSuggestions
    ELSE [present |-> TRUE, forInputs |-> payload.forInputs, modules |-> payload.modules]

\* CACHE_SUGGESTIONS
CACHE_SUGGESTIONS(payload) ==
    [present |-> TRUE, forInputs |-> payload.forInputs, modules |-> payload.modules]

loadingAfterDiscovery_onSuccessOnly(result) == result.kind # "resolved"

\* finally { setIsLoading(false) }: whatever the call settled with
loadingAfterDiscovery(result) == FALSE

\* discoverModulesWithAI has settled: the rest of runActualDiscovery
runActualDiscoverySettled ==
    /\ discLoading
    /\ service = "discover"
    /\ serviceResult.kind # "pending"
    /\ IF serviceResult.kind = "resolved"
       THEN LET modules == serviceResult.value IN
            /\ cachedSuggestions' =
                 CACHE_SUGGESTIONS([forInputs |-> discKey, modules |-> modules])
            /\ cachedInputs' = discInputs
            /\ suggestedModules' = modules
            /\ IF modules.t = "arr"
               THEN /\ checkedModules' = namesOf(modules)
                    /\ discToast' = IF discForce THEN "AI re-discovered modules."
                                    ELSE "new modules discovered by AI."
                    /\ UNCHANGED discError
               ELSE \* modules.map is not a function: the catch block runs
                    /\ discError' = <<"TypeError">>
                    /\ discToast' = "Discovery failed"
                    /\ UNCHANGED checkedModules
       ELSE /\ discError' = serviceResult.value
            /\ discToast' = "Discovery failed"
            /\ UNCHANGED <<cachedSuggestions, cachedInputs, suggestedModules, checkedModules>>
    /\ discLoading' = loadingAfterDiscovery(serviceResult)
    /\ service' = NoService
    /\ serviceResult' = Unsettled
    /\ responseText' = NoText
    /\ gatewayRestart
    /\ UNCHANGED <<setupInfo, discKey, discForce, discInputs, discRequest, discRequests,
                   discoveredModules>>

discoveryFrame == <<storeVars, fnVars, isAutoExecuting, pendingTests, execIndex, execCalls,
                    execError,
    formVars, persistVars, manualVars, analysisVars>>

\* what the gateway steps of a discovery leave alone
discoveryUnchanged == <<discoveryFrame, setupInfo, discoveryVars>>

NextDiscovery ==
    \/ \E formData \in SetupInfos :
           /\ handleSetupSubmit(formData)
           /\ UNCHANGED <<storeVars, gatewayVars, fnVars, serviceVars, discoveryVars, formVars, persistVars, manualVars, analysisVars>>
    \/ handleDiscoverModules /\ UNCHANGED discoveryFrame
    \/ handleForceDiscover /\ UNCHANGED discoveryFrame
    \/ runActualDiscoverySettled /\ UNCHANGED discoveryFrame
    \/ \E text \in DiscoveryTexts :
           serviceTransportSucceeds(text) /\ UNCHANGED discoveryUnchanged
    \/ \E e \in DiscoveryErrors :
           serviceTransportFails(e) /\ UNCHANGED discoveryUnchanged
    \/ serviceBackoffElapsed /\ UNCHANGED discoveryUnchanged

SpecDiscovery == Init /\ [][NextDiscovery]_vars

\* C16: a discovery requested while the app URL and the description are both
\* empty fails with the precondition message without any transport call, and
\* leaves the discovery cache and the suggestion list as they were.
C16_PreconditionFailsFast ==
    [][(discRequests' # discRequests /\ setupInfo.appUrl = "" /\ setupInfo.appDescription = "") =>
          /\ discToast' = PreconditionToast
          /\ calls' = calls
          /\ service' = NoService /\ ~discLoading'
          /\ cachedSuggestions' = cachedSuggestions
          /\ suggestedModules' = suggestedModules]_vars

C16_Witness ==
    /\ discToast = PreconditionToast
    /\ setupInfo.appUrl = "" /\ setupInfo.appDescription = ""
    /\ cachedSuggestions.present
    /\ suggestedModules # NoSuggestions

\* the cache holds the result of a discovery made with the inputs `info`
CacheHit(info) == cachedSuggestions.present /\ cachedInputs = info

\* C17: the discovery cache is one slot keyed by the current inputs: a
\* non-forced discovery is answered from the slot, with no transport call,
\* exactly when the slot was filled for inputs equal to the current ones;
\* otherwise, and on a forced refresh, the AI is called, and when that call
\* succeeds the slot becomes (key of the inputs of that call, new modules).
C17_SingleSlotCache ==
    [][/\ (discRequests' # discRequests /\ isSetupForDiscovery(setupInfo)) =>
            IF discRequest' = "discover" /\ CacheHit(setupInfo)
            THEN /\ calls' = calls /\ service' = NoService /\ ~discLoading'
                 /\ suggestedModules' = cachedSuggestions.modules
                 /\ cachedSuggestions' = cachedSuggestions
            ELSE /\ service' = "discover" /\ discLoading'
                 /\ discInputs' = setupInfo
                 /\ cachedSuggestions' = cachedSuggestions
       /\ (discLoading /\ ~discLoading' /\ serviceResult.kind = "resolved") =>
            /\ cachedSuggestions'.present
            /\ cachedSuggestions'.forInputs = discoveryKeyOf(discInputs)
            /\ cachedSuggestions'.modules = serviceResult.value
            /\ cachedInputs' = discInputs
       /\ (cachedSuggestions' # cachedSuggestions) =>
            (discLoading /\ serviceResult.kind = "resolved")
       /\ (discLoading /\ pc = "call" /\ pc' # "call") => calls' = calls + 1]_vars

C17_Witness ==
    /\ discRequests = 2
    /\ discRequest = "discover"
    /\ ~discLoading
    /\ cachedSuggestions.present
    /\ cachedInputs = setupInfo
    /\ discToast = "Loaded consistent results from cache."
    /\ suggestedModules = cachedSuggestions.modules
    /\ calls = 0

(***************************************************************************)
(* The project's modules: ADD_DISCOVERED_MODULE(S) and the two handlers of *)
(* DiscoveryTab that dispatch them                                         *)
(***************************************************************************)
MaxModules == 2

\* what the manual form's two inputs may hold
ManualNames == {<<"a", " ">>, <<" ">>}

ManualDescriptions == {<<"a">>, <<>>}

\* crypto.randomUUID(): an id no module of the list has; the list only grows,
\* so the position the module would take is such an id
randomUUID(modules, k) == Len(modules) + k

DiscoveredModule(id, name, description) ==
    [id |-> id, name |-> name, description |-> description, insights |-> <<>>]

\* state.discoveredModules.some(existing => existing.name === name)
hasModuleNamed(modules, name) == \E i \in 1..Len(modules) : modules[i].name = name

\* ADD_DISCOVERED_MODULE
ADD_DISCOVERED_MODULE(modules, payload) ==
    IF hasModuleNamed(modules, payload.name) THEN modules ELSE Append(modules, payload)

\* action.payload.filter(newModule => !state.discoveredModules.some(...)):
\* each payload entry is compared with the modules of the state only
RECURSIVE filterNewModules(_, _)
filterNewModules(modules, payload) ==
    IF payload = <<>> THEN <<>>
    ELSE IF hasModuleNamed(modules, Head(payload).name)
         THEN filterNewModules(modules, Tail(payload))
         ELSE <<Head(payload)>> \o filterNewModules(modules, Tail(payload))

\* ADD_DISCOVERED_MODULES
ADD_DISCOVERED_MODULES(modules, payload) == modules \o filterNewModules(modules, payload)

\* suggestedModules.filter(mod => checkedModules[mod.name]).map(...)
RECURSIVE modulesToAdd(_, _, _, _)
modulesToAdd(suggested, checked, modules, k) ==
    IF suggested = <<>> THEN <<>>
    ELSE IF Property(Head(suggested), "name") \in checked
         THEN <<DiscoveredModule(randomUUID(modules, k), Property(Head(suggested), "name"),
                                 Property(Head(suggested), "description"))>>
                \o modulesToAdd(Tail(suggested), checked, modules, k + 1)
         ELSE modulesToAdd(Tail(suggested), checked, modules, k)

\* handleCheckboxChange: the box of a listed suggestion is toggled
handleCheckboxChange(moduleName) ==
    /\ suggestedModules.t = "arr"
    /\ \E i \in 1..Len(suggestedModules.v) : Property(suggestedModules.v[i], "name") = moduleName
    /\ checkedModules' = IF moduleName \in checkedModules
                         THEN checkedModules \ {moduleName}
                         ELSE checkedModules \cup {moduleName}
    /\ UNCHANGED <<setupInfo, serviceVars, cachedSuggestions, suggestedModules, discLoading,
                   discKey, discForce, discError, discToast, discRequest, discRequests,
                   discoveredModules, discInputs, cachedInputs>>

\* handleAddSelectedModules: the button is shown with a non-empty list
handleAddSelectedModules ==
    /\ suggestedModules.t = "arr"
    /\ Len(suggestedModules.v) > 0
    /\ LET payload == modulesToAdd(suggestedModules.v, checkedModules, discoveredModules, 1) IN
       IF Len(payload) > 0
       THEN /\ Len(discoveredModules) + Len(payload) <= MaxModules
            /\ discoveredModules' = ADD_DISCOVERED_MODULES(discoveredModules, payload)
            /\ discToast' = "selected modules added to the project."
            /\ suggestedModules' = NoSuggestions
            /\ checkedModules' = {}
       ELSE /\ discToast' = "No modules selected to add."
            /\ UNCHANGED <<discoveredModules, suggestedModules, checkedModules>>
    /\ UNCHANGED <<setupInfo, serviceVars, cachedSuggestions, discLoading, discKey, discForce,
                   discError, discRequest, discRequests, discInputs, cachedInputs>>

\* handleManualAddModule
handleManualAddModule(manualModuleName, manualModuleDesc) ==
    /\ Len(discoveredModules) < MaxModules
    /\ IF trim(manualModuleName) = <<>> \/ trim(manualModuleDesc) = <<>>
       THEN /\ discToast' = "Please provide both a name and a description for the module."
            /\ UNCHANGED discoveredModules
       ELSE /\ discoveredModules' =
                 ADD_DISCOVERED_MODULE(discoveredModules,
                     DiscoveredModule(randomUUID(discoveredModules, 1),
                                      Str(trim(manualModuleName)), Str(trim(manualModuleDesc))))
            /\ discToast' = "added manually."
    /\ UNCHANGED <<setupInfo, serviceVars, cachedSuggestions, suggestedModules, checkedModules,
                   discLoading, discKey, discForce, discError, discRequest, discRequests,
                   discInputs, cachedInputs>>

NextModules ==
    \/ NextDiscovery
    \/ \E moduleName \in {Str(<<"a">>), Str(<<"b">>)} :
           handleCheckboxChange(moduleName) /\ UNCHANGED <<discoveryFrame, gatewayVars>>
    \/ handleAddSelectedModules /\ UNCHANGED <<discoveryFrame, gatewayVars>>
    \/ \E manualModuleName \in ManualNames, manualModuleDesc \in ManualDescriptions :
           handleManualAddModule(manualModuleName, manualModuleDesc)
           /\ UNCHANGED <<discoveryFrame, gatewayVars>>

SpecModules == Init /\ [][NextModules]_vars

\* C18: no two modules of the project have the same name, whatever was
\* dispatched, a batch that repeats a name included.
C18_UniqueModuleNames ==
    \A i, j \in 1..Len(discoveredModules) :
        i # j => discoveredModules[i].name # discoveredModules[j].name

(***************************************************************************)
(* Creation of test cases with the data each path submits: TestCaseForm    *)
(* and handleFormSubmit, the rows parseTestCasesFromCSV returns, and the   *)
(* drafts of a generation                                                  *)
(***************************************************************************)
MaxSteps == 2

General == <<"G", "e", "n", "e", "r", "a", "l">>

Imported == <<"I", "m", "p", "o", "r", "t", "e", "d">>

\* what a step input of the form may hold
StepTexts == {<<"s">>, <<" ">>}

\* the module filter of the tab when the modal opens
ModuleFilters == {<<>>}

\* selectedModuleForFilter || editingTestCase?.module || "General"
moduleNameOf(selectedModuleForFilter, editing) ==
    IF selectedModuleForFilter # <<>> THEN selectedModuleForFilter
    ELSE IF editing # <<>> /\ editing[1].module # <<>> THEN editing[1].module
    ELSE General

\* { ...emptyTestCase, module: moduleName }
emptyTestCase(moduleName) ==
    [title |-> "", steps |-> << <<>> >>, module |-> moduleName, status |-> "Pending"]

\* what none of the creation handlers touches
creationFrame == <<gatewayVars, fnVars, setupInfo, isAutoExecuting, pendingTests, execIndex,
                   execCalls, execError, serviceVars, discoveryVars, persistVars, manualVars, analysisVars>>

openAddModal(selectedModuleForFilter) ==
    /\ ~isModalOpen
    /\ editingTestCase' = <<>>
    /\ isModalOpen' = TRUE
    /\ formTestCase' = <<emptyTestCase(moduleNameOf(selectedModuleForFilter, <<>>))>>
    /\ UNCHANGED <<storeVars, submittedData>>

\* openEditModal; the form renders testCase.steps.map, so it mounts only for
\* a case that has a list of steps
openEditModal(i) ==
    /\ ~isModalOpen
    /\ i \in 1..Len(testCases)
    /\ "steps" \in DOMAIN testCases[i]
    /\ editingTestCase' = <<testCases[i]>>
    /\ isModalOpen' = TRUE
    /\ formTestCase' = <<testCases[i]>>
    /\ UNCHANGED <<storeVars, submittedData>>

\* the modal's onClose and the form's onCancel: setIsModalOpen(false) only
closeModal ==
    /\ isModalOpen
    /\ isModalOpen' = FALSE
    /\ formTestCase' = <<>>
    /\ UNCHANGED <<storeVars, editingTestCase, submittedData>>

\* handleChange of an input of the form
handleChange(name, value) ==
    /\ isModalOpen
    /\ formTestCase' = <<[formTestCase[1] EXCEPT ![name] = value]>>
    /\ UNCHANGED <<storeVars, isModalOpen, editingTestCase, submittedData>>

handleStepChange(index, value) ==
    /\ isModalOpen
    /\ index \in 1..Len(formTestCase[1].steps)
    /\ formTestCase' = <<[formTestCase[1] EXCEPT !.steps[index] = value]>>
    /\ UNCHANGED <<storeVars, isModalOpen, editingTestCase, submittedData>>

addStep ==
    /\ isModalOpen
    /\ Len(formTestCase[1].steps) < MaxSteps
    /\ formTestCase' = <<[formTestCase[1] EXCEPT !.steps = Append(@, <<>>)]>>
    /\ UNCHANGED <<storeVars, isModalOpen, editingTestCase, submittedData>>

\* testCase.steps.filter((_, i) => i !== index)
withoutStep(steps, index) == SubSeq(steps, 1, index - 1) \o SubSeq(steps, index + 1, Len(steps))

removeStep(index) ==
    /\ isModalOpen
    /\ index \in 1..Len(formTestCase[1].steps)
    /\ formTestCase' = IF Len(formTestCase[1].steps) <= 1 THEN formTestCase
                       ELSE <<[formTestCase[1] EXCEPT !.steps = withoutStep(@, index)]>>
    /\ UNCHANGED <<storeVars, isModalOpen, editingTestCase, submittedData>>

\* handleFormSubmit of the tab, called by the form with its final data
handleFormSubmit(testCaseData) ==
    /\ IF editingTestCase # <<>> /\ "id" \in DOMAIN testCaseData
       THEN /\ testCases' = UPDATE_TEST_CASE(testCases, testCaseData)
            /\ UNCHANGED <<idLog, deletedIds, genVars, submittedData>>
       ELSE /\ handleFormSubmitNew(testCaseData)
            /\ submittedData' = <<testCaseData>>
    /\ isModalOpen' = FALSE
    /\ editingTestCase' = <<>>
    /\ formTestCase' = <<>>

\* handleSubmit of TestCaseForm; the title and module inputs are required,
\* so the browser submits the form only when both are filled
handleSubmit ==
    /\ isModalOpen
    /\ formTestCase[1].title # ""
    /\ formTestCase[1].module # <<>>
    /\ LET testCase == formTestCase[1] IN
       IF \E k \in 1..Len(testCase.steps) : trim(testCase.steps[k]) = <<>>
       THEN UNCHANGED <<storeVars, formVars>>
       ELSE handleFormSubmit(
                [testCase EXCEPT !.status = IF @ = "" THEN "Pending" ELSE @,
                                 !.module = IF @ = <<>>
                                            THEN moduleNameOf(<<>>, editingTestCase) ELSE @])

RECURSIVE splitOn(_, _)
\* String.prototype.split with a one-character separator
splitOn(s, sep) ==
    IF \A i \in 1..Len(s) : s[i] # sep THEN <<s>>
    ELSE LET at == CHOOSE i \in 1..Len(s) : s[i] = sep /\ \A j \in 1..(i - 1) : s[j] # sep
         IN <<SubSeq(s, 1, at - 1)>> \o splitOn(SubSeq(s, at + 1, Len(s)), sep)

RECURSIVE trimmedNonEmpty(_)
\* .map(s => s.trim()).filter(s => s)
trimmedNonEmpty(parts) ==
    IF parts = <<>> THEN <<>>
    ELSE IF trim(Head(parts)) = <<>> THEN trimmedNonEmpty(Tail(parts))
    ELSE <<trim(Head(parts))>> \o trimmedNonEmpty(Tail(parts))

\* the object parseTestCasesFromCSV returns for the entry of a row
parsedRow(entry) ==
    [title |-> IF entry.title = "" THEN "Untitled" ELSE entry.title,
     steps |-> trimmedNonEmpty(splitOn(entry.steps, ";")),
     module |-> IF entry.module = <<>> THEN Imported ELSE entry.module]

\* the cells of a row under the title, module, steps and status headers
CsvEntries ==
    [title : {NewTitle}, module : {<<>>},
     steps : {<<>>, <<"s", " ", ";", ";", "s">>}, status : {"Passed"}]

\* handleImportCSV with the rows parsed from the file
handleImportCSVEntries(entries) ==
    /\ handleImportCSV([k \in 1..Len(entries) |-> parsedRow(entries[k])])
    /\ submittedData' = entries

\* the drafts generateTestCasesWithGemini resolves with
Drafts ==
    {[title |-> NewTitle],
     [title |-> NewTitle, steps |-> << <<"s">> >>, status |-> "Passed"]}

\* the module selections of the generations followed here
CreationSelections == {<<ModuleOrder[3]>>}

NextCreation ==
    \/ \E selectedModuleForFilter \in ModuleFilters :
           openAddModal(selectedModuleForFilter) /\ UNCHANGED creationFrame
    \/ \E i \in 1..Len(testCases) : openEditModal(i) /\ UNCHANGED creationFrame
    \/ closeModal /\ UNCHANGED creationFrame
    \/ \E value \in {NewTitle} : handleChange("title", value) /\ UNCHANGED creationFrame
    \/ \E index \in 1..MaxSteps, value \in StepTexts :
           handleStepChange(index, value) /\ UNCHANGED creationFrame
    \/ addStep /\ UNCHANGED creationFrame
    \/ \E index \in 1..MaxSteps : removeStep(index) /\ UNCHANGED creationFrame
    \/ handleSubmit /\ UNCHANGED creationFrame
    \/ \E entries \in SeqsUpTo(CsvEntries, MaxImportRows) :
           /\ handleImportCSVEntries(entries)
           /\ UNCHANGED <<creationFrame, isModalOpen, editingTestCase, formTestCase>>
    \/ \E modules \in CreationSelections :
           /\ runGenerationStart(modules)
           /\ UNCHANGED <<creationFrame, formVars>>
    \/ \E generatedData \in SeqsUpTo(Drafts, MaxDrafts) :
           /\ runGenerationResolvedWith(generatedData)
           /\ submittedData' = generatedData
           /\ UNCHANGED <<creationFrame, isModalOpen, editingTestCase, formTestCase>>
    \/ runGenerationRejected /\ UNCHANGED <<creationFrame, formVars>>

SpecCreation == Init /\ [][NextCreation]_vars

\* C19: every case a dispatch adds to the store has status Pending when it is
\* added, whatever status the submitted form data, the imported row or the
\* generated draft carried.
C19_CreatedPending ==
    [][\A i \in (Len(testCases) + 1)..Len(testCases') : testCases'[i].status = "Pending"]_vars

\* a draft that came with status Passed is in the store, as Pending
C19_Witness ==
    /\ ~isLoading
    /\ Len(submittedData) = 1 /\ Len(testCases) = 1
    /\ "steps" \in DOMAIN submittedData[1] /\ submittedData[1].steps = << <<"s">> >>
    /\ submittedData[1].status = "Passed"
    /\ testCases[1].steps = submittedData[1].steps
    /\ testCases[1].status = "Pending"

\* C20: every test case in the store has a non-empty sequence of steps.
C20_StepsNonEmpty ==
    \A i \in 1..Len(testCases) :
        "steps" \in DOMAIN testCases[i] /\ testCases[i].steps # <<>>

\* C21: a result executeTestCaseWithGemini resolves with has status Passed,
\* Failed or Blocked; a status the model returned outside that set, Pending
\* included, has become Blocked with the amended explanation.
C21_ResultStatus ==
    (service = "execute" /\ serviceResult.kind = "resolved") =>
        LET result == serviceResult.value
            returned == Property(ParsedResponse, "status")
        IN /\ Property(result, "status") \in {Str(<<"Passed">>), Str(<<"Failed">>), Str(<<"Blocked">>)}
           /\ returned \notin {Str(<<"Passed">>), Str(<<"Failed">>), Str(<<"Blocked">>)} =>
                 /\ Property(result, "status") = Str(<<"Blocked">>)
                 /\ Property(result, "actualResults") # Property(ParsedResponse, "actualResults")

(***************************************************************************)
(* generateTestCasesWithGemini applied to drafts with declared types       *)
(***************************************************************************)
\* the types a draft may declare: none, two of the enumeration, one outside
DeclaredTypes == {"", "Functional", "Negative", "Exploratory"}

TypedDraft(type) ==
    IF type = "" THEN Obj(<<[k |-> <<"title">>, v |-> Str(<<"a">>)]>>)
    ELSE Obj(<<[k |-> <<"title">>, v |-> Str(<<"a">>)], [k |-> <<"type">>, v |-> Str(<<type>>)]>>)

\* what the model answers: an array of drafts, or one draft outside an array
DraftResponses ==
    {Arr([i \in 1..Len(types) |-> TypedDraft(types[i])]) :
        types \in SeqsUpTo(DeclaredTypes, MaxDrafts)}
      \cup {TypedDraft(type) : type \in DeclaredTypes}

\* chosenTestTypes: the checked types, in the order of the enumeration
TypeSelections ==
    {FilterSeq(SubSeq(ALL_TEST_TYPES, 1, 3), chosen) :
        chosen \in SUBSET Range(SubSeq(ALL_TEST_TYPES, 1, 3))}

InitDrafts ==
    /\ GatewayInit /\ StoreIdle /\ UiIdle
    /\ \E response \in DraftResponses, selectedTestTypes \in TypeSelections :
           arg = [response |-> response, text |-> serialize(response, <<>>),
                  selectedTestTypes |-> selectedTestTypes]
    /\ ret = Unsettled

ApplyDrafts ==
    /\ ret = Unsettled
    /\ ret' = generateAfterResponse(arg.text, arg.selectedTestTypes)
    /\ UNCHANGED <<arg, gatewayVars, storeVars, uiVars>>

SpecDrafts == InitDrafts /\ [][ApplyDrafts]_vars

\* the drafts the response carried, as a list
DraftsOf(response) == IF response.t = "arr" THEN response.v ELSE <<response>>

\* C22: every draft generateTestCasesWithGemini returns has a type of the
\* allowed set (the selected categories, or the whole enumeration when none is
\* selected): a declared type of the set is kept, any other becomes the first
\* category of the set.
C22_DraftTypes ==
    ret # Unsettled =>
        LET allowed == IF arg.selectedTestTypes # <<>> THEN arg.selectedTestTypes
                       ELSE ALL_TEST_TYPES
            sent == DraftsOf(arg.response)
        IN /\ ret.kind = "resolved"
           /\ Len(ret.value.v) = Len(sent)
           /\ \A i \in 1..Len(sent) :
                LET declared == Property(sent[i], "type")
                    type == Property(ret.value.v[i], "type")
                IN /\ \E k \in 1..Len(allowed) : type = Str(<<allowed[k]>>)
                   /\ (\E k \in 1..Len(allowed) : declared = Str(<<allowed[k]>>)) => type = declared
                   /\ (\A k \in 1..Len(allowed) : declared # Str(<<allowed[k]>>)) =>
                        type = Str(<<allowed[1]>>)

C22_Witness ==
    /\ ret # Unsettled
    /\ arg.selectedTestTypes = <<"UI/UX", "Negative">>
    /\ arg.response = Arr(<<TypedDraft("Negative"), TypedDraft("Functional")>>)
    /\ Property(ret.value.v[1], "type") = Str(<<"Negative">>)
    /\ Property(ret.value.v[2], "type") = Str(<<"UI/UX">>)

(***************************************************************************)
(* CSV import: parseTestCasesFromCSV over the text of a file, and          *)
(* handleImportCSV with what it returns or throws                          *)
(***************************************************************************)
\* h.trim().toLowerCase().replace(/\s+/g, '') on a column name
NormalName(w) ==
    CASE w \in {"Title", "TITLE"} -> "title"
      [] w = "Description" -> "description"
      [] w = "Steps (Semicolon Separated)" -> "steps(semicolonseparated)"
      [] w = "Expected Results" -> "expectedresults"
      [] w = "Type" -> "type"
      [] w = "Module" -> "module"
      [] w = "ID" -> "id"
      [] w = "Status" -> "status"
      [] w = "Actual Results" -> "actualresults"
      [] OTHER -> w

\* the same on a header cell: a column name with white space around it
normalizeHeader(h) ==
    LET lowered == [i \in 1..Len(trim(h)) |-> NormalName(trim(h)[i])]
    IN SelectSeq(lowered, LAMBDA c : ~IsWhitespace(c))

requiredHeaders ==
    << <<"title">>, <<"description">>, <<"steps(semicolonseparated)">>, <<"expectedresults">>,
       <<"type">>, <<"module">> >>

RECURSIVE parseCells(_, _, _, _)
\* the character loop over a data line: the values of its cells
parseCells(line, i, currentVal, inQuotes) ==
    IF i > Len(line) THEN <<trim(currentVal)>>
    ELSE IF line[i] = Quote
         THEN IF inQuotes /\ i + 1 <= Len(line) /\ line[i + 1] = Quote
              THEN parseCells(line, i + 2, Append(currentVal, Quote), inQuotes)
              ELSE parseCells(line, i + 1, currentVal, ~inQuotes)
    ELSE IF line[i] = "," /\ ~inQuotes
         THEN <<trim(currentVal)>> \o parseCells(line, i + 1, <<>>, inQuotes)
    ELSE parseCells(line, i + 1, Append(currentVal, line[i]), inQuotes)

\* entry[header] after headers.forEach: the value under the last column of
\* that name, '' when the line has no such cell or no such column
entryOf(headers, values, header) ==
    LET at == {k \in 1..Len(headers) : headers[k] = header}
        last == CHOOSE k \in at : \A j \in at : j <= k
    IN IF at = {} \/ last > Len(values) THEN <<>> ELSE values[last]

\* the object returned for one data line
csvRowOf(headers, line) ==
    LET values == parseCells(line, 1, <<>>, FALSE)
        entry(header) == entryOf(headers, values, <<header>>)
    IN [title |-> IF entry("title") = <<>> THEN <<"Untitled">> ELSE entry("title"),
        description |-> entry("description"),
        steps |-> trimmedNonEmpty(splitOn(entry("steps(semicolonseparated)"), ";")),
        expectedResults |-> entry("expectedresults"),
        type |-> IF \E k \in 1..Len(ALL_TEST_TYPES) : entry("type") = <<ALL_TEST_TYPES[k]>>
                 THEN entry("type") ELSE <<"Functional">>,
        module |-> IF entry("module") = <<>> THEN Imported ELSE entry("module")]

\* parseTestCasesFromCSV: the rows, or the headers the thrown error names
parseTestCasesFromCSV(csvString) ==
    LET lines == splitOn(trim(csvString), "\n")
        headers == [k \in 1..Len(splitOn(lines[1], ",")) |->
                       normalizeHeader(splitOn(lines[1], ",")[k])]
        missingHeaders == SelectSeq(requiredHeaders, LAMBDA rh : rh \notin Range(headers))
    IN IF Len(lines) < 2
       THEN [threw |-> FALSE, missing |-> <<>>, found |-> <<>>, rows |-> <<>>]
       ELSE IF Len(missingHeaders) > 0
       THEN [threw |-> TRUE, missing |-> missingHeaders, found |-> headers, rows |-> <<>>]
       ELSE [threw |-> FALSE, missing |-> <<>>, found |-> <<>>,
             rows |-> [k \in 1..(Len(lines) - 1) |-> csvRowOf(headers, lines[k + 1])]]

\* handleImportCSV, reader.onload with the text of the file; arg keeps the
\* file that was read and ret the toast
handleImportCSVFile(file) ==
    LET parsedData == parseTestCasesFromCSV(file.text) IN
    /\ arg' = file
    /\ IF parsedData.threw
       THEN /\ ret' = <<"Import failed", parsedData.missing, parsedData.found>>
            /\ UNCHANGED storeVars
       ELSE /\ handleImportCSV(parsedData.rows)
            /\ ret' = <<"test cases imported from CSV.", Len(parsedData.rows)>>

\* the header rows of the files: the six columns under two spellings, without
\* some of them
HeaderColumns ==
    { << <<"Title">>, <<"Description">>, <<"Steps (Semicolon Separated)">>,
         <<"Expected Results">>, <<"Type">>, <<"Module">> >>,
      << <<" ", "TITLE">>, <<"description", " ">>, <<"steps(semicolonseparated)">>,
         <<"expectedresults">>, <<"type">>, <<" ", "module", " ">> >> }

HeaderRows ==
    {SelectSeq(columns, LAMBDA h : normalizeHeader(h) \notin dropped) :
        columns \in HeaderColumns,
        dropped \in SUBSET {<<"title">>, <<"type">>, <<"module">>}}

RECURSIVE join(_, _)
\* Array.prototype.join
join(parts, separator) ==
    IF parts = <<>> THEN <<>>
    ELSE IF Len(parts) = 1 THEN parts[1]
    ELSE parts[1] \o separator \o join(Tail(parts), separator)

\* a file: its header row, then data lines with a cell per column
CsvFiles ==
    {[headers |-> headers, dataLines |-> n,
      text |-> join(<<join(headers, <<",">>)>>
                          \o [k \in 1..n |-> join([j \in 1..Len(headers) |-> <<"c">>], <<",">>)],
                      <<"\n">>)] :
        headers \in HeaderRows \ {<<>>}, n \in 0..MaxImportRows}

NextImport ==
    \E file \in CsvFiles :
        handleImportCSVFile(file) /\ UNCHANGED <<gatewayVars, uiVars>>

SpecImport == Init /\ [][NextImport]_vars

\* the mandatory columns a header row lacks, in the order of the list
MissingColumns(headers) ==
    SelectSeq(requiredHeaders,
              LAMBDA rh : \A k \in 1..Len(headers) : normalizeHeader(headers[k]) # rh)

\* C23: an import of a file whose header row lacks mandatory columns fails
\* with an error naming exactly those columns, also when the file has no data
\* row, and adds no test case to the store.
C23_MissingHeaders ==
    [][MissingColumns(arg'.headers) # <<>> =>
          /\ ret'[1] = "Import failed"
          /\ ret'[2] = MissingColumns(arg'.headers)
          /\ testCases' = testCases]_vars

(***************************************************************************)
(* CSV export: convertTestCasesToCSV, and the round trip through           *)
(* parseTestCasesFromCSV                                                   *)
(***************************************************************************)
MaxCsvCases == 2

\* strValue.replace(/"/g, '""')
doubledQuotes(strValue) ==
    join([i \in 1..Len(strValue) |->
             IF strValue[i] = Quote THEN <<Quote, Quote>> ELSE <<strValue[i]>>], <<>>)

\* formatCsvCell of convertTestCasesToCSV
formatCsvCell(value) ==
    IF \E i \in 1..Len(value) : value[i] \in {",", Quote, "\n"}
    THEN <<Quote>> \o doubledQuotes(value) \o <<Quote>>
    ELSE value

\* the line convertTestCasesToCSV pushes for one test case
csvLineOf(tc) ==
    join(<<formatCsvCell(tc.id), formatCsvCell(tc.module), formatCsvCell(tc.title),
           formatCsvCell(tc.description), formatCsvCell(join(tc.steps, <<";", " ">>)),
           formatCsvCell(tc.expectedResults), formatCsvCell(tc.type),
           formatCsvCell(tc.status), formatCsvCell(tc.actualResults)>>, <<",">>)

convertTestCasesToCSV(cases) ==
    IF Len(cases) = 0 THEN <<>>
    ELSE join(<<join(<< <<"ID">>, <<"Module">>, <<"Title">>, <<"Description">>,
                        <<"Steps (Semicolon Separated)">>, <<"Expected Results">>, <<"Type">>,
                        <<"Status">>, <<"Actual Results">> >>, <<",">>)>>
                \o [k \in 1..Len(cases) |-> csvLineOf(cases[k])],
              <<"\n">>)

\* a test case of the store with plain fields
PlainCase ==
    [id |-> <<"T", "C", "-", "1">>, module |-> <<"m">>, title |-> <<"t">>,
     description |-> <<"d">>, steps |-> << <<"s">>, <<"u">> >>, expectedResults |-> <<"e">>,
     type |-> <<"Negative">>, status |-> <<"Pending">>, actualResults |-> <<>>]

\* the texts a field of an exported case holds
FieldTexts ==
    {<<"a", ",", "b">>, <<Quote, "a", Quote>>, <<"a", "\n", "b">>, <<"a", ";", "b">>,
     <<" ", "a">>, <<"a", " ">>}

\* the exported cases: the plain one, and it with one field holding such a text
ExportedCases ==
    {PlainCase}
      \cup {[PlainCase EXCEPT !.title = text] : text \in FieldTexts}
      \cup {[PlainCase EXCEPT !.description = text] : text \in FieldTexts}
      \cup {[PlainCase EXCEPT !.steps = <<text>>] : text \in FieldTexts}
      \cup {[PlainCase EXCEPT !.module = <<"m", ",", Quote>>, !.expectedResults = <<Quote, ",">>]}

InitRoundTrip ==
    /\ GatewayInit /\ StoreIdle /\ UiIdle
    /\ arg \in SeqsUpTo(ExportedCases, MaxCsvCases)
    /\ ret = NotCalled

\* the export of the list, read back by the importer
ApplyRoundTrip ==
    /\ ret = NotCalled
    /\ ret' = <<"parsed", parseTestCasesFromCSV(convertTestCasesToCSV(arg)).rows>>
    /\ UNCHANGED <<arg, gatewayVars, storeVars, uiVars>>

SpecRoundTrip == InitRoundTrip /\ [][ApplyRoundTrip]_vars

\* the fields of a test case that the importer reads
importedFields(tc) ==
    [title |-> tc.title, description |-> tc.description, steps |-> tc.steps,
     expectedResults |-> tc.expectedResults, type |-> tc.type, module |-> tc.module]

\* C24: the export of a list of test cases, read back by the importer, gives
\* one entry per case, in order, with the module, title, description, steps,
\* expected results and type of the case, whatever commas, quotes, newlines,
\* semicolons and outer spaces the fields hold.
C24_RoundTrip ==
    ret # NotCalled =>
        ret[2] = [k \in 1..Len(arg) |-> importedFields(arg[k])]

(***************************************************************************)
(* AppProvider: the state loaded from localStorage by the useReducer       *)
(* initializer and written back by the effect on [state]                   *)
(***************************************************************************)
\* the AppState held by the reducer
appState ==
    [setupInfo |-> setupInfo, discoveredModules |-> discoveredModules,
     testCases |-> testCases, cachedSuggestions |-> cachedSuggestions]

initialState ==
    [setupInfo |-> DEFAULT_SETUP_INFO, discoveredModules |-> <<>>,
     testCases |-> <<>>, cachedSuggestions |-> NoCache]

\* an entry whose text is not JSON
StoredText(text) == [kind |-> "text", value |-> text]

\* an entry whose text is JSON, by the value JSON.parse gives for it
StoredJson(value) == [kind |-> "json", value |-> value]

\* JSON.stringify(state) as the entry it makes
stringify(state) ==
    StoredJson([t |-> "obj",
                v |-> [setupInfo |-> state.setupInfo,
                       discoveredModules |-> state.discoveredModules,
                       testCases |-> [t |-> "arr", v |-> state.testCases],
                       cachedSuggestions |-> state.cachedSuggestions]])

\* { ...tc, status: tc.status || TestStatus.PENDING }
withStatus_keepStored(tc) == tc

withStatus(tc) ==
    [f \in (DOMAIN tc) \cup {"status"} |->
        IF f = "status"
        THEN IF "status" \in DOMAIN tc /\ tc.status # "" THEN tc.status ELSE "Pending"
        ELSE tc[f]]

\* the body of the try block of the initializer for a truthy storedData:
\* the state it returns, or that it threw
parsedState(storedData) ==
    LET parsedData == storedData.value
        field(name) == IF name \in DOMAIN parsedData.v THEN parsedData.v[name]
                       ELSE initialState[name]
    IN IF storedData.kind = "text" \/ parsedData.t = "null"
       THEN [threw |-> TRUE, state |-> initialState]
       ELSE IF parsedData.t # "obj"
       THEN [threw |-> FALSE, state |-> initialState]
       ELSE IF "testCases" \notin DOMAIN parsedData.v
       THEN [threw |-> FALSE,
             state |-> [name \in DOMAIN initialState |-> field(name)]]
       ELSE IF parsedData.v.testCases.t # "arr"
       THEN [threw |-> TRUE, state |-> initialState]
       ELSE [threw |-> FALSE,
             state |-> [name \in DOMAIN initialState |->
                          IF name = "testCases"
                          THEN [k \in 1..Len(parsedData.v.testCases.v) |->
                                   withStatus(parsedData.v.testCases.v[k])]
                          ELSE field(name)]]

\* `if (storedData)`: null and the empty string are falsy
Truthy(storedData) ==
    storedData.kind # "null" /\ ~(storedData.kind = "text" /\ storedData.value = <<>>)

\* what the rest of the model leaves alone while the provider loads and saves
persistFrame ==
    <<gatewayVars, ret, serviceVars, suggestedModules, checkedModules, discLoading, discKey,
      discForce, discError, discToast, discRequest, discRequests, discInputs, cachedInputs,
      formVars, manualVars, analysisVars>>

execVars == <<isAutoExecuting, pendingTests, execIndex, execCalls, execError>>

\* the initializer of useReducer; arg keeps the entry it read
AppProviderInit ==
    /\ provider = "unmounted"
    /\ arg' = localStorage
    /\ LET storedData == localStorage
           loaded == IF Truthy(storedData) THEN parsedState(storedData)
                     ELSE [threw |-> FALSE, state |-> initialState]
       IN /\ localStorage' = IF loaded.threw THEN NoEntry ELSE localStorage
          /\ setupInfo' = loaded.state.setupInfo
          /\ discoveredModules' = loaded.state.discoveredModules
          /\ testCases' = loaded.state.testCases
          /\ cachedSuggestions' = loaded.state.cachedSuggestions
    /\ provider' = "initialized"
    /\ UNCHANGED <<idLog, deletedIds, genVars, execVars, persistFrame>>

\* the effect on [state]: localStorage.setItem(LOCAL_STORAGE_KEY, JSON.stringify(state))
saveState ==
    localStorage' = stringify([setupInfo |-> setupInfo', discoveredModules |-> discoveredModules',
                               testCases |-> testCases', cachedSuggestions |-> cachedSuggestions'])

\* the effect after the first render
AppProviderMounted ==
    /\ provider = "initialized"
    /\ provider' = "mounted"
    /\ UNCHANGED <<storeVars, setupInfo, discoveredModules, cachedSuggestions, execVars, arg,
                   persistFrame>>
    /\ saveState

\* case 'RESET_STATE'
RESET_STATE == initialState

\* handleResetAllData, confirmed
handleResetAllData ==
    /\ setupInfo' = RESET_STATE.setupInfo
    /\ discoveredModules' = RESET_STATE.discoveredModules
    /\ testCases' = RESET_STATE.testCases
    /\ cachedSuggestions' = RESET_STATE.cachedSuggestions
    /\ UNCHANGED <<idLog, deletedIds, genVars>>

\* the test cases of the stored entries: two allocated cases as a session
\* left them, as an older version stored them without status, or with an
\* empty status
StoredCases ==
    LET cases == allocateEach(<<[module |-> ModuleOrder[1], title |-> NewTitle],
                                [module |-> ModuleOrder[1], title |-> NewTitle]>>, <<>>)
        bare(tc) == [f \in (DOMAIN tc) \ {"status"} |-> tc[f]]
    IN {<<>>, cases,
        <<[cases[1] EXCEPT !.status = "Passed"], bare(cases[2])>>,
        <<bare(cases[1])>>,
        <<[cases[1] EXCEPT !.status = ""], [cases[2] EXCEPT !.status = "Failed"]>>}

\* what another session, another version or another page of the origin left
\* under the key
StoredEntries ==
    {NoEntry, StoredText(<<>>), StoredText(<<"{">>),
     StoredJson([t |-> "null", v |-> <<>>]), StoredJson([t |-> "num", v |-> <<>>]),
     StoredJson([t |-> "obj", v |-> <<>>]),
     StoredJson([t |-> "obj", v |-> [testCases |-> [t |-> "num", v |-> <<>>]]])}
      \cup {StoredJson([t |-> "obj", v |-> [testCases |-> [t |-> "arr", v |-> cases]]]) :
               cases \in StoredCases}
      \cup {StoredJson([t |-> "obj",
                        v |-> [setupInfo |-> info, testCases |-> [t |-> "arr", v |-> cases]]]) :
               info \in SetupInfos \ {DEFAULT_SETUP_INFO}, cases \in StoredCases}

\* before the page loads: the entry is whatever was left there
entryLeft(entry) ==
    /\ provider = "unmounted"
    /\ localStorage = NoEntry
    /\ localStorage' = entry
    /\ UNCHANGED <<storeVars, setupInfo, discoveredModules, cachedSuggestions, execVars, arg,
                   provider, persistFrame>>

NextPersistence ==
    \/ \E entry \in StoredEntries \ {NoEntry} : entryLeft(entry)
    \/ AppProviderInit
    \/ AppProviderMounted
    \/ \E m \in ModuleNames :
           /\ provider = "mounted"
           /\ handleFormSubmitAdd(m, NewTitle)
           /\ UNCHANGED <<setupInfo, discoveredModules, cachedSuggestions, execVars, arg,
                          provider, persistFrame>>
           /\ saveState
    \/ \E i \in 1..Len(testCases) :
           /\ provider = "mounted"
           /\ handleDeleteTestCase(i)
           /\ UNCHANGED <<setupInfo, discoveredModules, cachedSuggestions, execVars, arg,
                          provider, persistFrame>>
           /\ saveState
    \/ \E formData \in SetupInfos :
           /\ provider = "mounted"
           /\ handleSetupSubmit(formData)
           /\ UNCHANGED <<storeVars, discoveredModules, cachedSuggestions, arg, provider,
                          persistFrame>>
           /\ saveState
    \/ /\ provider = "mounted"
       /\ handleResetAllData
       /\ UNCHANGED <<execVars, arg, provider, persistFrame>>
       /\ saveState

SpecPersistence == Init /\ [][NextPersistence]_vars

\* an entry that cannot be read as a state: text that is not JSON, JSON null,
\* or an object whose testCases is not a list
Corrupt(entry) ==
    \/ entry.kind = "text" /\ entry.value # <<>>
    \/ entry.kind = "json" /\ entry.value.t = "null"
    \/ /\ entry.kind = "json" /\ entry.value.t = "obj"
       /\ "testCases" \in DOMAIN entry.value.v
       /\ entry.value.v.testCases.t # "arr"

\* no data under the key: no entry, or an empty one
Missing(entry) == entry.kind = "null" \/ (entry.kind = "text" /\ entry.value = <<>>)

\* the state a readable entry stands for: its fields over the defaults, every
\* test case without a status Pending
StateOf(entry) ==
    LET stored == IF entry.value.t = "obj" THEN entry.value.v ELSE <<>>
        cases == IF "testCases" \in DOMAIN stored THEN stored.testCases.v ELSE <<>>
    IN [setupInfo |-> IF "setupInfo" \in DOMAIN stored THEN stored.setupInfo
                      ELSE DEFAULT_SETUP_INFO,
        discoveredModules |-> <<>>,
        testCases |-> [k \in 1..Len(cases) |->
                          IF "status" \in DOMAIN cases[k] /\ cases[k].status # ""
                          THEN cases[k]
                          ELSE [f \in (DOMAIN cases[k]) \cup {"status"} |->
                                   IF f = "status" THEN "Pending" ELSE cases[k][f]]],
        cachedSuggestions |-> NoCache]

C26_BatchIdsFresh ==
    [][(/\ isLoading /\ ~isLoading'
        /\ Len(testCases) + Len(allNewTestCases) > Len(allTestCasesContext)
        /\ Len(testCases') > Len(testCases))
          => \A k \in (Len(testCases) + 1)..Len(testCases') :
                 \A j \in 1..Len(testCases) : testCases'[k].id # testCases[j].id]_vars

\* C27: whatever the shape of the failure value, an error that
\* withRateLimitRetry treats as retryable is classified by handleGeminiError
\* as a rate-limit error.
C27_RetryAgreesWithClassifier ==
    (Caught /\ isRetryable(error)) => MentionsRateLimit(handleGeminiError(error))

(***************************************************************************)
(* Auto-execution while the user edits test cases on the Testing tab       *)
(***************************************************************************)
NextExecutionEdits ==
    \/ NextExecution
    \/ \E i \in 1..Len(testCases), m \in ModuleNames :
           handleFormSubmitEdit(i, m) /\ UNCHANGED <<gatewayVars, fnVars, uiVars>>

SpecExecutionEdits == Init /\ [][NextExecutionEdits]_vars

\* C28: when an auto-execution result is committed, the test cases of the
\* store keep every field other than status and actualResults as the store
\* held them just before, edits made while the batch was in flight included.
C28_ResultKeepsEdits ==
    [][(isAutoExecuting /\ execIndex' # execIndex /\ execError' = execError)
          => /\ Len(testCases') = Len(testCases)
             /\ \A j \in 1..Len(testCases) :
                    /\ testCases'[j].id = testCases[j].id
                    /\ testCases'[j].module = testCases[j].module
                    /\ testCases'[j].title = testCases[j].title]_vars

(***************************************************************************)
(* ResultsTab manual execution: startExecution and updateTestStatus over   *)
(* testCasesToExecute, which is sorted again after every update            *)
(***************************************************************************)
\* the list the handlers of a render see, 0-based like its indices
toExecuteAt(tcs, i) == sortToExecute(tcs)[i + 1]

\* testCasesToExecute.findIndex(tc => tc.status === TestStatus.PENDING) from
\* index `from` on: the first such index, -1 when there is none
findPendingFrom(tcs, from) ==
    LET list == sortToExecute(tcs)
        at == {i \in from..(Len(list) - 1) : list[i + 1].status = "Pending"}
    IN IF at = {} THEN -1 ELSE CHOOSE i \in at : \A j \in at : i <= j

\* the ids shown once the index is `index` over the list of `tcs`
presentedWith(shown, tcs, index) ==
    IF index # NullIndex /\ index < Len(tcs)
    THEN shown \cup {toExecuteAt(tcs, index).id}
    ELSE shown

\* startExecution; its button is disabled while a test is current
startExecution ==
    /\ Len(testCasesToExecute) > 0
    /\ currentTestIndex = NullIndex
    /\ ~isAutoExecuting
    /\ LET firstPendingIndex == findPendingFrom(testCases, 0)
       IN currentTestIndex' = IF firstPendingIndex # -1 THEN firstPendingIndex ELSE 0
    /\ presented' = presentedWith({}, testCases, currentTestIndex')
    /\ UNCHANGED testCases

\* the index updateTestStatus sets, from the list of the render it ran in
nextIndex(tcs, updated, index) ==
    LET nextIdx == findPendingFrom(tcs, index + 1)
    IN IF nextIdx # -1 THEN nextIdx
       ELSE IF index + 1 < Len(tcs) THEN index + 1
       ELSE NullIndex

\* updateTestStatus(status), with nothing typed into the actual results
updateTestStatus(status) ==
    /\ currentTestIndex # NullIndex
    /\ currentTestIndex < Len(testCasesToExecute)
    /\ ~isAutoExecuting
    /\ LET currentTestCase == toExecuteAt(testCases, currentTestIndex)
           updatedTestCase ==
               [f \in (DOMAIN currentTestCase) \cup {"status", "actualResults"} |->
                   IF f = "status" THEN status
                   ELSE IF f = "actualResults"
                        THEN IF status = "Passed" THEN "As expected." ELSE ""
                   ELSE currentTestCase[f]]
       IN /\ testCases' = UPDATE_TEST_CASE(testCases, updatedTestCase)
          /\ currentTestIndex' = nextIndex(testCases, testCases', currentTestIndex)
          /\ presented' = presentedWith(presented, testCases', currentTestIndex')

manualFrame ==
    <<idLog, deletedIds, genVars, gatewayVars, fnVars, setupInfo, isAutoExecuting, pendingTests,
      execIndex, execCalls, execError, serviceVars, discoveryVars, formVars, persistVars,
      analysisVars>>

NextManual ==
    \/ \E rows \in SeqsUpTo([module : ModuleNames, title : {NewTitle}], MaxImportRows) :
           /\ currentTestIndex = NullIndex
           /\ handleImportCSV(rows)
           /\ UNCHANGED <<gatewayVars, fnVars, uiVars>>
    \/ startExecution /\ UNCHANGED manualFrame
    \/ \E status \in {"Passed", "Failed", "Blocked"} :
           updateTestStatus(status) /\ UNCHANGED manualFrame

SpecManual == Init /\ [][NextManual]_vars

\* C29: when a manual execution cycle ends (currentTestIndex back to null),
\* every test of the list that is Pending has been presented as the current
\* test during the cycle.
C29_NoPendingSkipped ==
    [][(currentTestIndex # NullIndex /\ currentTestIndex' = NullIndex)
          => \A k \in 1..Len(testCases') :
                 testCases'[k].status = "Pending" => testCases'[k].id \in presented']_vars

(***************************************************************************)
(* The four AI operations side by side, with the scheduling the runtime    *)
(* gives: a transport call returns or throws, a timer fires, a settled     *)
(* promise runs its continuation                                           *)
(***************************************************************************)
\* case 'UPDATE_DISCOVERED_MODULE_INSIGHTS'
UPDATE_DISCOVERED_MODULE_INSIGHTS(modules, payload) ==
    [i \in 1..Len(modules) |->
        IF modules[i].id = payload.id THEN [modules[i] EXCEPT !.insights = payload.insights]
        ELSE modules[i]]

analysisFrame ==
    <<storeVars, gatewayVars, fnVars, setupInfo, execVars, serviceVars, formVars, persistVars,
      manualVars, cachedSuggestions, suggestedModules, checkedModules, discLoading, discKey,
      discForce, discRequest, discRequests, discInputs, cachedInputs>>

\* handleAnalyzeModule up to its await of analyzeModuleWithGemini
handleAnalyzeModule(moduleId) ==
    /\ IF analyzingModuleId # NoModule
       THEN UNCHANGED <<analyzingModuleId, discError>>
       ELSE /\ analyzingModuleId' = moduleId
            /\ discError' = <<>>
    /\ UNCHANGED <<discoveredModules, discToast>>

\* analyzeModuleWithGemini has settled: try, catch and finally
analysisSettled(result) ==
    /\ analyzingModuleId # NoModule
    /\ IF result.kind = "resolved"
       THEN /\ discoveredModules' =
                 UPDATE_DISCOVERED_MODULE_INSIGHTS(discoveredModules,
                     [id |-> analyzingModuleId, insights |-> result.value])
            /\ discToast' = "Analysis complete"
            /\ UNCHANGED discError
       ELSE /\ discError' = result.value
            /\ discToast' = "Analysis failed"
            /\ UNCHANGED discoveredModules
    /\ analyzingModuleId' = NoModule

\* what an analysis settles with
AnalysisResults == {Resolved(<<"i">>), Rejected(<<"e">>)}

\* the setup the operations run with
BusySetup == [appUrl |-> "u", appDescription |-> "d"]

\* what the model answers to the discovery prompt: two modules, or no JSON
BusyTexts == {serialize(Arr(<<SuggestedModule("a"), SuggestedModule("b")>>), <<>>), <<"a">>}

\* what the transport call rejects with: a RESOURCE_EXHAUSTED record that is a
\* rate limit, one that is a quota error
BusyErrors ==
    {[NoError EXCEPT !.hasNested = TRUE,
                     !.nested = [status |-> "RESOURCE_EXHAUSTED", message |-> message]] :
        message \in {<<"429">>, <<"Quota">>}}

discoveryTransportSettles ==
    \/ \E text \in BusyTexts : serviceTransportSucceeds(text) /\ UNCHANGED discoveryUnchanged
    \/ \E e \in BusyErrors : serviceTransportFails(e) /\ UNCHANGED discoveryUnchanged

discoveryTimerFires == serviceBackoffElapsed /\ UNCHANGED discoveryUnchanged

discoveryContinues == runActualDiscoverySettled /\ UNCHANGED discoveryFrame

analysisSettles ==
    \E result \in AnalysisResults : analysisSettled(result) /\ UNCHANGED analysisFrame

generationSettles ==
    \/ \E n \in 0..1 : runGenerationResolved(n) /\ UNCHANGED <<gatewayVars, fnVars, uiVars>>
    \/ runGenerationRejected /\ UNCHANGED <<gatewayVars, fnVars, uiVars>>

executionSettles ==
    \/ \E result \in [status : {"Passed"}, actualResults : {"r"}] :
           executeResolved(result) /\ UNCHANGED execFrame
    \/ executeRejected("rate limit") /\ UNCHANGED execFrame

NextBusy ==
    \/ /\ handleSetupSubmit(BusySetup)
       /\ UNCHANGED <<storeVars, gatewayVars, fnVars, serviceVars, discoveryVars, formVars,
                      persistVars, manualVars, analysisVars>>
    \/ handleDiscoverModules /\ UNCHANGED discoveryFrame
    \/ discoveryTransportSettles
    \/ discoveryTimerFires
    \/ discoveryContinues
    \/ handleAddSelectedModules /\ UNCHANGED <<discoveryFrame, gatewayVars>>
    \/ \E i \in 1..Len(discoveredModules) :
           handleAnalyzeModule(discoveredModules[i].id) /\ UNCHANGED analysisFrame
    \/ analysisSettles
    \/ runGenerationStart(<<ModuleOrder[3]>>) /\ UNCHANGED <<gatewayVars, fnVars, uiVars>>
    \/ generationSettles
    \/ handleAutoExecution /\ UNCHANGED execFrame
    \/ executionSettles

\* every awaited call settles and every continuation runs
FairBusy ==
    /\ WF_vars(discoveryTransportSettles)
    /\ WF_vars(discoveryTimerFires)
    /\ WF_vars(discoveryContinues)
    /\ WF_vars(analysisSettles)
    /\ WF_vars(generationSettles)
    /\ WF_vars(executionSettles)

SpecBusy == Init /\ [][NextBusy]_vars /\ FairBusy

\* C30: every started AI operation eventually clears its busy flag, on
\* success and on failure: discovery (isLoading of the Discovery tab), module
\* analysis (analyzingModuleId), batch generation (isLoading of the Testing
\* tab) and auto-execution (isAutoExecuting).
C30_BusyFlagsClear ==
    /\ discLoading ~> ~discLoading
    /\ (analyzingModuleId # NoModule) ~> (analyzingModuleId = NoModule)
    /\ isLoading ~> ~isLoading
    /\ isAutoExecuting ~> ~isAutoExecuting

\* each of the four has run and is over: a discovery failed, an analysis
\* left its insights, a generation added cases, an auto-execution was rejected
C30_Witness ==
    /\ ~discLoading /\ discToast = "Analysis complete" /\ discRequests = MaxRequests
    /\ analyzingModuleId = NoModule
    /\ \E i \in 1..Len(discoveredModules) : discoveredModules[i].insights # <<>>
    /\ ~isLoading /\ testCases # <<>>
    /\ ~isAutoExecuting /\ execError # NoExecError

====
